---- MODULE Spec2Model ----
(***************************************************************************)
(* Markdown -> Typst conversion of Bon2Workflow: the transform             *)
(* orchestrator (TypstConverter.convertMarkdown), the public API           *)
(* (TypstAPI.convertAsync), the script storage (TypstScriptManager), the   *)
(* sandbox (executeSandbox) and the embed resolution engine                *)
(* (markdownToTypst).                                                      *)
(*                                                                         *)
(* Numbers that cross the API are JavaScript numbers.  They are kept in    *)
(* fixed point with one fractional bit (JsNum(n) = 2n, so 1.5 is 3), which *)
(* is what lets a non-integer maxEmbedDepth be written down.               *)
(***************************************************************************)
EXTENDS Integers, Sequences, FiniteSets, TLC

\* ------------------------------------------------------------------ bounds
MaxVaultNodes == 3

MaxDepth == 2

\* ------------------------------------------------------- JavaScript values
JsNum(n) == 2 * n

IsInteger(v) == v % 2 = 0

Undefined == "<undefined>"

\* ---------------------------------------------------------------- the vault
MdFiles == {"A.md", "B.md"}

PdfFile == "C.pdf"

\* raw link texts an embed can carry: two notes, one PDF, one dangling link
Links == {"A", "B", "C.pdf", "nope"}

NotFound == [found |-> FALSE, path |-> "", isMarkdown |-> FALSE]

\* EmbedEnvironment.resolveFilePath: raw link text -> {path, isMarkdown} | null
resolveFilePath(link) ==
    CASE link = "A"     -> [found |-> TRUE, path |-> "A.md", isMarkdown |-> TRUE]
      [] link = "B"     -> [found |-> TRUE, path |-> "B.md", isMarkdown |-> TRUE]
      [] link = "C.pdf" -> [found |-> TRUE, path |-> PdfFile, isMarkdown |-> FALSE]
      [] OTHER          -> NotFound

\* a parsed document is a sequence of block nodes: plain text or ![[link]]
TextNode == [kind |-> "text", target |-> ""]

EmbedNode(link) == [kind |-> "embedDocument", target |-> link]

Nodes == {TextNode} \cup {EmbedNode(l) : l \in Links}

\* the vaults whose markdown files hold at most n nodes between them
Vaults(n) ==
    UNION {UNION {{[p \in MdFiles |-> IF p = "A.md" THEN da ELSE db] :
                     da \in [1..a -> Nodes], db \in [1..b -> Nodes]} :
                  b \in 0..(n - a)} : a \in 0..n}

\* ------------------------------------------------------ output fragments
Tok(k, t, i) == [k |-> k, t |-> t, i |-> i]

TextFragment(doc, i) == Tok("text", doc, i)

\* (variant: the placeholder drops the target text)
BrokenEmbedNoTarget(link) == Tok("brokenEmbed", "", 0)

BrokenEmbed(link) == Tok("brokenEmbed", link, 0)

\* (variant: depth exhaustion reported as not-found)
DepthLimitedAsBroken(link) == Tok("brokenEmbed", link, 0)

DepthLimited(link) == Tok("depthLimited", link, 0)

ImageDirective(path) == Tok("image", path, 0)

QuoteOpen(path) == Tok("quote[", path, 0)

SmallCaps(path) == Tok("smallcaps", path, 0)

QuoteClose(path) == Tok("]", path, 0)

\* (variant: the quote loses its source annotation)
QuoteBlockBare(path, body) ==
    <<QuoteOpen(path)>> \o body \o <<QuoteClose(path)>>

\* #quote[ #smallcaps("path") body ]
QuoteBlock(path, body) ==
    <<QuoteOpen(path), SmallCaps(path)>> \o body \o <<QuoteClose(path)>>

\* ------------------------------------------------------------ script store
DEFAULT_SCRIPT_NAME == "default"

DEFAULT_SCRIPT_CONTENT == "default-template"

Absent == "<absent>"

\* names a script file can have in the script directory
ScriptNames == {"default", "custom", "nope"}

\* what a script text does when the sandbox runs it
ScriptBehaviour(code) ==
    CASE code = DEFAULT_SCRIPT_CONTENT -> "delegates"
      [] code = "custom-returns"       -> "returns"
      [] code = "edited-default"       -> "returns"
      [] code = "custom-throws"        -> "throws"
      [] OTHER                         -> "noTransform"

\* scriptName.trim().replace(/\.js$/, "")
normalizeScriptName(name) ==
    CASE name = "custom.js"  -> "custom"
      [] name = "default.js" -> "default"
      [] name = " "          -> ""
      [] OTHER               -> name

\* normalizeScriptName(scriptName) || DEFAULT_SCRIPT_NAME
NormalizedOrDefault(name) ==
    IF normalizeScriptName(name) = "" THEN DEFAULT_SCRIPT_NAME
    ELSE normalizeScriptName(name)

\* ------------------------------------------------------------- the options
JsUndefined == [t |-> "undefined", n |-> 0]

JsNumber(h) == [t |-> "number", n |-> h]

JsString == [t |-> "string", n |-> 0]

\* DEFAULT_TYPST_SETTINGS.maxEmbedDepth
DefaultMaxEmbedDepth == 5

Truthy(s) == s \notin {Undefined, ""}

\* validateOptions: TRUE when it returns, FALSE when it throws
validateOptions(o) ==
    /\ Truthy(o.transformMode) => o.transformMode \in {"ast", "script"}
    /\ ~(o.maxEmbedDepth.t # "undefined"
         /\ (o.maxEmbedDepth.t # "number" \/ o.maxEmbedDepth.n < 0))

VARIABLES
    files,          \* vault: markdown file path -> its parsed content
    input,          \* what convertAsync was called with: a string or a TFile
    apiOptions,     \* the ConvertOptions convertAsync was called with
    settings,       \* the plugin's TypstSettings
    mdOptions,      \* the options object convertMarkdown was called with
    markdown,       \* the text handed to convertMarkdown (parsed)
    transformMode,  \* convertMarkdown's locals, after destructuring
    scriptName,
    maxEmbedDepth,
    currentFile,
    pc,             \* orchestrator state of the call
    trace,          \* the orchestrator states the convertMarkdown call entered
    phase,          \* where the script strategy is
    loadName,       \* loadScript's argument
    scriptCode,     \* what loadScript returned
    scriptFiles,    \* script directory: name -> text, or Absent
    scriptCache,    \* TypstScriptManager.scriptCache
    scriptDirExists,
    stack,          \* markdownToTypst recursion: one frame per nested document
    pendingIO,      \* Environment calls issued and not yet returned
    ioLog,          \* every Environment call issued, in issue order
    result          \* what the call returned or threw

\* the state of one TypstCache
VARIABLES
    cache,          \* the Map: key -> svg, or NoEntry
    accessOrder,    \* the accessOrder array
    maxSize,        \* the capacity
    recency         \* history: the keys in the order of their latest access

cacheVars == <<cache, accessOrder, maxSize, recency>>

\* one TypstWasmRenderer and the renderToSVG calls on it
VARIABLES
    initialized,    \* this.initialized
    initPromise,    \* this.initPromise: "null", or the promise's state
    renders,        \* call -> where it is, its code, hash and result
    opLog,          \* history: the cache operations in the order they ran
    doInitializeStarts  \* history: how many times doInitialize() was called

renderVars == <<initialized, initPromise, renders, opLog, doInitializeStarts>>

\* conversions made one after the other on one converter
VARIABLES
    returned        \* what the calls that returned before this one returned

\* two conversion calls on one converter
VARIABLES
    running,        \* the call whose continuation runs now
    waiting,        \* the other call's own state, while it is suspended
    stage,          \* each call alone first, then the two together
    alone,          \* call -> what it returned when run alone
    storeAtStart    \* the script directory and cache before any call

pairVars == <<running, waiting, stage, alone, storeAtStart>>

\* no pair of calls
PairIdle ==
    /\ running = 1
    /\ waiting = "none"
    /\ stage = "single"
    /\ alone = <<>>
    /\ storeAtStart = "none"

\* one file embed with a pipe-delimited attribute suffix
VARIABLES
    embed,          \* the embed as written: target, suffix, text around it
    rest,           \* the attributes of the suffix not parsed yet
    attributes,     \* the width and page hints parsed so far
    embedPc,        \* where the conversion of the embed stands
    fragments       \* the output so far

embedVars == <<embed, rest, attributes, embedPc, fragments>>

\* no such conversion
EmbedIdle ==
    /\ embed = "none"
    /\ rest = <<>>
    /\ attributes = "none"
    /\ embedPc = "idle"
    /\ fragments = <<>>

\* the synchronous entry point of the API
VARIABLES
    syncOutcome     \* what the last call of convert() did

\* convert() was not called
SyncIdle == syncOutcome = [status |-> "none", error |-> "", text |-> <<>>]

\* calls of the script manager made from the settings tab and the API
VARIABLES
    calls,          \* slot -> the call suspended there, or none
    started,        \* how many calls were made
    maxInFlight,    \* how many calls may be under way at once
    lastLoad        \* what the loadScript that returned last was asked, and gave

managerVars == <<calls, started, maxInFlight, lastLoad>>

\* no such call
ManagerIdle ==
    /\ calls = <<>>
    /\ started = 0
    /\ maxInFlight = 0
    /\ lastLoad = "none"

\* one code block given to its generator
VARIABLES
    codeNode,       \* the block as parsed, with the fence it was written with
    generated       \* the text generated for it

codeVars == <<codeNode, generated>>

\* no such block
CodeIdle ==
    /\ codeNode = "none"
    /\ generated = <<>>

\* the plugin's Typst features and the global it publishes them under
VARIABLES
    typstScriptManager, \* this.typstScriptManager: 0 is null, else the instance
    typstConverter,     \* this.typstConverter, likewise
    typstAPI,           \* this.typstAPI, likewise
    previewCallback,    \* whether the converter was given a preview callback
    bon,                \* the keys of window.bon, or Undefined
    bonTypst,           \* the TypstAPI instance window.bon.typst is bound to
    pluginPc,           \* where initializeTypstFeatures is suspended
    attempts,           \* how many initializations were started
    lastCall            \* the call that returned last

pluginVars == <<typstScriptManager, typstConverter, typstAPI, previewCallback,
                bon, bonTypst, pluginPc, attempts, lastCall>>

\* the plugin is left out
PluginIdle ==
    /\ typstScriptManager = 0
    /\ typstConverter = 0
    /\ typstAPI = 0
    /\ previewCallback = "null"
    /\ bon = [defined |-> FALSE, others |-> FALSE]
    /\ bonTypst = 0
    /\ pluginPc = "none"
    /\ attempts = 0
    /\ lastCall = "none"

\* a call of TypstConverter.convertFile
VARIABLES
    filePc,                 \* where convertFile is
    selectedScript,         \* what selectScript gives for the file
    typFile,                \* the .typ file beside the source, or Absent
    previewUpdateCallback,  \* this.previewUpdateCallback: null, or how it ends
    autoCompile,            \* settings.autoCompile
    steps,                  \* the steps performed, in order, and how each ended
    fileOutcome,            \* what the caller of convertFile got
    atCall                  \* the files as they were when convertFile was called

fileVars == <<filePc, selectedScript, typFile, previewUpdateCallback,
              autoCompile, steps, fileOutcome, atCall>>

\* no such call
FileIdle ==
    /\ filePc = "none"
    /\ selectedScript = ""
    /\ typFile = ""
    /\ previewUpdateCallback = "null"
    /\ autoCompile = FALSE
    /\ steps = <<>>
    /\ fileOutcome = [status |-> "none", error |-> "", text |-> <<>>]
    /\ atCall = <<>>

\* the components added after these
lateVars == <<pluginVars, fileVars>>

LateIdle ==
    /\ PluginIdle
    /\ FileIdle

\* the components added to the model last
extraVars == <<syncOutcome, managerVars, codeVars, lateVars>>

ExtraIdle ==
    /\ SyncIdle
    /\ ManagerIdle
    /\ CodeIdle
    /\ LateIdle

\* what a step of one of them leaves alone among the others
besidesSync == <<managerVars, codeVars, lateVars>>

besidesManager == <<syncOutcome, codeVars, lateVars>>

besidesCode == <<syncOutcome, managerVars, lateVars>>

besidesPlugin == <<syncOutcome, managerVars, codeVars, fileVars>>

besidesFile == <<syncOutcome, managerVars, codeVars, pluginVars>>

\* a run of executeSandbox taken on its own
VARIABLES
    scriptSource,   \* executeSandbox's scriptCode
    content,        \* executeSandbox's content
    hostGlobals,    \* global identifier -> its value in the host
    sandboxPc,      \* where the run is
    invocations,    \* how many times transform was called
    outcome         \* what the caller of executeSandbox got

sandboxVars == <<scriptSource, content, hostGlobals, sandboxPc, invocations,
                 outcome>>

\* what a conversion call leaves alone
otherVars == <<sandboxVars, cacheVars, renderVars, returned, pairVars, embedVars, extraVars>>

callVars == <<files, input, apiOptions, settings>>

localVars == <<mdOptions, markdown, transformMode, scriptName, maxEmbedDepth,
               currentFile>>

storeVars == <<scriptFiles, scriptCache, scriptDirExists>>

scriptVars == <<phase, loadName, scriptCode>>

engineVars == <<stack, pendingIO, ioLog>>

\* the state of a conversion call
convertVars == <<callVars, localVars, storeVars, scriptVars, engineVars, pc,
                 trace, result>>

vars == <<convertVars, otherVars>>

NoResult == [status |-> "none", error |-> "", text |-> <<>>]

Returned(text) == [status |-> "ok", error |-> "", text |-> text]

Thrown(error) == [status |-> "error", error |-> error, text |-> <<>>]

\* ------------------------------------------------------------ TypstAPI
\* convertString: what convertMarkdown is called with
StringCallOptions(o) ==
    [transformMode |-> o.transformMode, scriptName |-> o.scriptName,
     maxEmbedDepth |-> o.maxEmbedDepth, currentFile |-> Undefined]

\* convertFile, no autoCompile: what convertMarkdown is called with
FileCallOptions(o, path) ==
    [transformMode |-> o.transformMode, scriptName |-> o.scriptName,
     maxEmbedDepth |-> o.maxEmbedDepth, currentFile |-> path]

\* convertAsync up to its first await
ConvertAsync ==
    /\ pc = "convertAsync"
    /\ IF input.kind = "string" THEN
          IF Len(input.text) = 0 THEN
              /\ pc' = "Done"
              /\ result' = Returned(<<>>)
              /\ UNCHANGED <<mdOptions, markdown, trace>>
          ELSE IF ~validateOptions(apiOptions) THEN
              /\ pc' = "Done"
              /\ result' = Thrown("InvalidConfiguration")
              /\ UNCHANGED <<mdOptions, markdown, trace>>
          ELSE
              /\ pc' = "SelectingStrategy"
              /\ trace' = <<"SelectingStrategy">>
              /\ mdOptions' = StringCallOptions(apiOptions)
              /\ markdown' = input.text
              /\ result' = result
       ELSE
          IF input.extension # "md" THEN
              /\ pc' = "Done"
              /\ result' = Thrown("InvalidFileType")
              /\ UNCHANGED <<mdOptions, markdown, trace>>
          ELSE IF ~validateOptions(apiOptions) THEN
              /\ pc' = "Done"
              /\ result' = Thrown("InvalidConfiguration")
              /\ UNCHANGED <<mdOptions, markdown, trace>>
          ELSE
              /\ pc' = "readingFile"
              /\ UNCHANGED <<mdOptions, markdown, trace, result>>
    /\ UNCHANGED <<otherVars, callVars, transformMode, scriptName, maxEmbedDepth,
                   currentFile, storeVars, scriptVars, engineVars>>

\* convertFile: vault.read(file) returned
FileRead ==
    /\ pc = "readingFile"
    /\ pc' = "SelectingStrategy"
    /\ trace' = <<"SelectingStrategy">>
    /\ markdown' = files[input.path]
    /\ mdOptions' = FileCallOptions(apiOptions, input.path)
    /\ UNCHANGED <<otherVars, callVars, transformMode, scriptName, maxEmbedDepth,
                   currentFile, storeVars, scriptVars, engineVars, result>>

\* ------------------------------------------------- TypstConverter
\* (variant: the configured mode is ignored)
EffectiveModeNoSetting(opt, configured) == IF opt = Undefined THEN "ast" ELSE opt

\* transformMode = this.settings.transformMode
EffectiveMode(opt, configured) == IF opt = Undefined THEN configured ELSE opt

\* (variant: no default for the script name)
ScriptNameAsGiven(opt) == opt

\* scriptName = "default"
ScriptNameOrDefault(opt) == IF opt = Undefined THEN "default" ELSE opt

\* maxEmbedDepth = this.settings.maxEmbedDepth
EffectiveDepth(opt, configured) == IF opt.t = "undefined" THEN configured ELSE opt.n

\* currentFile ?? ""
CurrentFileOrEmpty(opt) == IF opt = Undefined THEN "" ELSE opt

\* (variants: the depth handed on is off by one)
StructuralDepthMinusOne(depth) == depth - JsNum(1)

StructuralDepthPlusOne(depth) == depth + JsNum(1)

\* (variant: the budget is kept on the converter and a call that returned
\* has used it up)
StructuralDepthSpent(depth) == IF result.status = "none" THEN depth ELSE 0

\* the maxEmbedDepth convertMarkdown hands to markdownToTypst
StructuralDepth(depth) == depth

\* convertMarkdown: destructure the options, pick the strategy
SelectStrategy ==
    /\ pc = "SelectingStrategy"
    /\ transformMode' = EffectiveMode(mdOptions.transformMode, settings.transformMode)
    /\ scriptName' = ScriptNameOrDefault(mdOptions.scriptName)
    /\ maxEmbedDepth' = EffectiveDepth(mdOptions.maxEmbedDepth, settings.maxEmbedDepth)
    /\ currentFile' = CurrentFileOrEmpty(mdOptions.currentFile)
    /\ IF transformMode' = "script" THEN
          /\ pc' = "RunningScript"
          /\ phase' = "loadScript"
          /\ loadName' = scriptName'
       ELSE
          /\ pc' = "RunningStructural"
          /\ UNCHANGED <<phase, loadName>>
    /\ trace' = Append(trace, pc')
    /\ UNCHANGED <<otherVars, callVars, mdOptions, markdown, storeVars, scriptCode,
                   engineVars, result>>

\* ------------------------------------------------- TypstScriptManager
\* loadScript up to its first await
LoadScript ==
    /\ pc = "RunningScript"
    /\ phase = "loadScript"
    /\ IF loadName = Undefined THEN
          \* undefined.trim()
          /\ pc' = "Done"
          /\ trace' = Append(trace, "Done")
          /\ result' = Thrown("TypeError")
          /\ UNCHANGED <<phase, loadName, scriptCode>>
       ELSE IF scriptCache[NormalizedOrDefault(loadName)] # Absent THEN
          /\ scriptCode' = scriptCache[NormalizedOrDefault(loadName)]
          /\ phase' = "sandbox"
          /\ UNCHANGED <<pc, trace, result, loadName>>
       ELSE
          /\ loadName' = NormalizedOrDefault(loadName)
          /\ phase' = "exists"
          /\ UNCHANGED <<pc, trace, result, scriptCode>>
    /\ UNCHANGED <<otherVars, callVars, localVars, storeVars, engineVars>>

\* adapter.exists(path) returned
ExistsReturns ==
    /\ pc = "RunningScript"
    /\ phase = "exists"
    /\ IF scriptFiles[loadName] = Absent THEN
          IF loadName = DEFAULT_SCRIPT_NAME THEN
              /\ phase' = "ensureScriptDirectory"
              /\ loadName' = loadName
          ELSE
              /\ phase' = "loadScript"
              /\ loadName' = DEFAULT_SCRIPT_NAME
       ELSE
          /\ phase' = "read"
          /\ loadName' = loadName
    /\ UNCHANGED <<otherVars, callVars, localVars, storeVars, scriptCode, engineVars, pc,
                   trace, result>>

\* initializeDefaultScript: ensureScriptDirectory
EnsureScriptDirectory ==
    /\ pc = "RunningScript"
    /\ phase = "ensureScriptDirectory"
    /\ scriptDirExists' = TRUE
    /\ phase' = "writeDefault"
    /\ UNCHANGED <<otherVars, callVars, localVars, scriptFiles, scriptCache, loadName,
                   scriptCode, engineVars, pc, trace, result>>

\* initializeDefaultScript: write default.js, cache it; loadScript returns the
\* template
WriteDefault ==
    /\ pc = "RunningScript"
    /\ phase = "writeDefault"
    /\ scriptFiles' = [scriptFiles EXCEPT ![DEFAULT_SCRIPT_NAME] = DEFAULT_SCRIPT_CONTENT]
    /\ scriptCache' = [scriptCache EXCEPT ![DEFAULT_SCRIPT_NAME] = DEFAULT_SCRIPT_CONTENT]
    /\ scriptCode' = DEFAULT_SCRIPT_CONTENT
    /\ phase' = "sandbox"
    /\ UNCHANGED <<otherVars, callVars, localVars, scriptDirExists, loadName, engineVars,
                   pc, trace, result>>

\* (variant: every script is cached under the default name)
CachedUnderDefault(normalized) == DEFAULT_SCRIPT_NAME

\* this.scriptCache.set(normalized, content): the key
CachedUnder(normalized) == normalized

\* adapter.read(path) returned: cache the content, return it
ScriptRead ==
    /\ pc = "RunningScript"
    /\ phase = "read"
    /\ scriptCache' = [scriptCache EXCEPT ![CachedUnder(loadName)] =
                                           scriptFiles[loadName]]
    /\ scriptCode' = scriptFiles[loadName]
    /\ phase' = "sandbox"
    /\ UNCHANGED <<otherVars, callVars, localVars, scriptFiles, scriptDirExists, loadName,
                   engineVars, pc, trace, result>>

\* ------------------------------------------------------------ the sandbox
ScriptOutput(code) == <<Tok("script", code, 0)>>

Template == <<Tok("template", "", 0)>>

\* executeSandbox(scriptCode, markdown, convertFn)
ExecuteSandbox ==
    /\ pc = "RunningScript"
    /\ phase = "sandbox"
    /\ LET does == ScriptBehaviour(scriptCode) IN
       IF does = "delegates" THEN
          \* transform awaits convertToTypst(content)
          /\ phase' = "convertToTypst"
          /\ UNCHANGED <<pc, trace, result>>
       ELSE
          /\ pc' = "Done"
          /\ trace' = Append(trace, "Done")
          /\ phase' = phase
          /\ result' =
               CASE does = "returns" -> Returned(ScriptOutput(scriptCode))
                 [] does = "throws"  -> Thrown("Script execution failed: thrown")
                 [] OTHER            ->
                      Thrown("Script execution failed: Script must define a transform() function")
    /\ UNCHANGED <<otherVars, callVars, localVars, storeVars, loadName, scriptCode,
                   engineVars>>

\* ------------------------------------------------------------ embed engine
Frame(doc, depth) ==
    [doc |-> doc, idx |-> 1, depth |-> depth, out |-> <<>>, await |-> "none"]

Top == stack[Len(stack)]

\* the children of the document a frame is converting
NodesAt(level) == IF level = 1 THEN markdown ELSE files[stack[level].doc]

\* position of the node the engine is at: the index path from the root
Pos == [l \in 1..Len(stack) |-> stack[l].idx]

SetTop(f) == [stack EXCEPT ![Len(stack)] = f]

\* (variant: fragments are put in front)
EmitInFront(out, frag) == frag \o out

\* a fragment is appended to what the frame has produced so far
Emit(out, frag) == out \o frag

\* (variant: the depth test never fires)
DepthExhaustedNever(depth) == FALSE

\* remainingDepth == 0: depth exhausted
DepthExhausted(depth) == depth = 0

\* (variant: the nested conversion gets the same depth)
NestedDepthSame(depth) == depth

\* the depth handed to the nested conversion
NestedDepth(depth) == depth - JsNum(1)

\* recursion is cut off by the depth alone; the model stops growing the stack
\* well past anything the depth bound allows
StackCap == MaxDepth + 2

IoReq(op, link, path, depth) ==
    [op |-> op, link |-> link, path |-> path, depth |-> depth, pos |-> Pos]

\* the structural conversion runs for the structural strategy, and for the
\* script strategy while the script awaits the injected convertToTypst
Converting ==
    \/ pc = "RunningStructural"
    \/ pc = "RunningScript" /\ phase = "convertToTypst"

\* markdownToTypst(markdown, {maxEmbedDepth}, env): parse, start at the root
MarkdownToTypst ==
    /\ Converting
    /\ stack = <<>>
    /\ stack' = <<Frame(currentFile, StructuralDepth(maxEmbedDepth))>>
    /\ UNCHANGED <<otherVars, callVars, localVars, storeVars, scriptVars, pc, trace,
                   result, pendingIO, ioLog>>

Running == Converting /\ stack # <<>>

AtNode == Running /\ Top.idx <= Len(NodesAt(Len(stack))) /\ Top.await = "none"

CurNode == NodesAt(Len(stack))[Top.idx]

\* a non-embed node goes through its generator
RenderText ==
    /\ AtNode
    /\ CurNode.kind = "text"
    /\ stack' = SetTop([Top EXCEPT
            !.out = Emit(@, <<TextFragment(Top.doc, Top.idx)>>),
            !.idx = @ + 1])
    /\ UNCHANGED <<otherVars, callVars, localVars, storeVars, scriptVars, pc, trace,
                   result, pendingIO, ioLog>>

\* expand step 1: await env.resolveFilePath(target)
IssueResolve ==
    /\ AtNode
    /\ CurNode.kind = "embedDocument"
    /\ LET req == IoReq("resolve", CurNode.target, "", Top.depth) IN
        /\ pendingIO' = pendingIO \cup {req}
        /\ ioLog' = Append(ioLog, req)
    /\ stack' = SetTop([Top EXCEPT !.await = "resolve"])
    /\ UNCHANGED <<otherVars, callVars, localVars, storeVars, scriptVars, pc, trace,
                   result>>

\* expand steps 2-4: the resolution returned
ResolveReturns ==
    /\ Running
    /\ Top.await = "resolve"
    /\ \E req \in pendingIO :
        /\ req.op = "resolve"
        /\ req.pos = Pos
        /\ LET r == resolveFilePath(req.link) IN
            IF ~r.found THEN
                /\ stack' = SetTop([Top EXCEPT
                        !.out = Emit(@, <<BrokenEmbed(req.link)>>),
                        !.idx = @ + 1, !.await = "none"])
                /\ pendingIO' = pendingIO \ {req}
                /\ ioLog' = ioLog
            ELSE IF ~r.isMarkdown THEN
                /\ stack' = SetTop([Top EXCEPT
                        !.out = Emit(@, <<ImageDirective(r.path)>>),
                        !.idx = @ + 1, !.await = "none"])
                /\ pendingIO' = pendingIO \ {req}
                /\ ioLog' = ioLog
            ELSE IF DepthExhausted(Top.depth) THEN
                /\ stack' = SetTop([Top EXCEPT
                        !.out = Emit(@, <<DepthLimited(req.link)>>),
                        !.idx = @ + 1, !.await = "none"])
                /\ pendingIO' = pendingIO \ {req}
                /\ ioLog' = ioLog
            ELSE
                LET rd == IoReq("read", req.link, r.path, Top.depth) IN
                /\ stack' = SetTop([Top EXCEPT !.await = "read"])
                /\ pendingIO' = (pendingIO \ {req}) \cup {rd}
                /\ ioLog' = Append(ioLog, rd)
    /\ UNCHANGED <<otherVars, callVars, localVars, storeVars, scriptVars, pc, trace,
                   result>>

\* the content arrived: convert it with remainingDepth - 1 and the target as
\* the current document
ReadReturns ==
    /\ Running
    /\ Top.await = "read"
    /\ Len(stack) < StackCap
    /\ \E req \in pendingIO :
        /\ req.op = "read"
        /\ req.pos = Pos
        /\ pendingIO' = pendingIO \ {req}
        /\ stack' = Append(stack, Frame(req.path, NestedDepth(Top.depth)))
    /\ UNCHANGED <<otherVars, callVars, localVars, storeVars, scriptVars, pc, trace,
                   result, ioLog>>

\* the nested conversion returned: quote it under its source annotation
EmbedReturns ==
    /\ Running
    /\ Len(stack) > 1
    /\ Top.await = "none"
    /\ Top.idx > Len(NodesAt(Len(stack)))
    /\ LET parent == stack[Len(stack) - 1] IN
        stack' = [SubSeq(stack, 1, Len(stack) - 1) EXCEPT ![Len(stack) - 1] =
            [parent EXCEPT !.out = Emit(@, QuoteBlock(Top.doc, Top.out)),
                           !.idx = @ + 1, !.await = "none"]]
    /\ UNCHANGED <<otherVars, callVars, localVars, storeVars, scriptVars, pc, trace,
                   result, pendingIO, ioLog>>

\* the root document is done: markdownToTypst returns the text
StructuralDone ==
    /\ Running
    /\ Len(stack) = 1
    /\ Top.await = "none"
    /\ Top.idx > Len(markdown)
    /\ pc' = "Done"
    /\ trace' = Append(trace, "Done")
    /\ result' = IF pc = "RunningScript" THEN Returned(Template \o Top.out)
                 ELSE Returned(Top.out)
    /\ UNCHANGED <<otherVars, callVars, localVars, storeVars, scriptVars, stack,
                   pendingIO, ioLog>>

\* ------------------------------------------- executeSandbox, taken on its own
\* script sources, one for each way a script can behave
SyntaxErrorScript == "function transform(content) {"

TopLevelThrowScript == "throw new Error('top')"

NoTransformScript == "const helper = 1"

NotCallableScript == "const transform = 1"

SyncScript == "function transform(content) { return content }"

SyncThrowScript == "function transform(content) { throw new Error('boom') }"

AsyncScript == "async function transform(content) { return content }"

AsyncThrowScript == "async function transform(content) { throw new Error('boom') }"

ReadsWindowScript == "function transform(content) { return String(window) + content }"

ReadsDocumentScript == "function transform(content) { return String(document) + content }"

ScriptSources ==
    {SyntaxErrorScript, TopLevelThrowScript, NoTransformScript,
     NotCallableScript, SyncScript, SyncThrowScript, AsyncScript,
     AsyncThrowScript, ReadsWindowScript, ReadsDocumentScript}

Contents == {"", "# a", "# b"}

\* global identifiers of the host, and what they can hold
HostIdentifiers == {"app", "window", "global", "document"}

HostValues == {"[object A]", "[object B]"}

\* const app = undefined; const window = undefined; const global = undefined;
Shadowed == {"app", "window", "global"}

\* what an identifier reads as inside the sandbox function
Read(id, host) == IF id \in Shadowed THEN "undefined" ELSE host[id]

\* new Function(...) compiles the source: a SyntaxError or a function
Compiles(code) == code # SyntaxErrorScript

\* running the script's own statements, before the typeof test
TopLevelThrows(code) == code = TopLevelThrowScript

\* (variant: the typeof test passes for anything)
TypeofTransformAlwaysFunction(code) == "function"

\* typeof transform
TypeofTransform(code) ==
    CASE code \in {NoTransformScript, TopLevelThrowScript} -> "undefined"
      [] code = NotCallableScript                          -> "number"
      [] OTHER                                             -> "function"

IsAsync(code) == code \in {AsyncScript, AsyncThrowScript}

\* the body of transform: the text it returns or the message it throws
TransformBody(code, text, host) ==
    CASE code \in {SyncThrowScript, AsyncThrowScript} ->
            [throws |-> TRUE, value |-> <<"boom">>]
      [] code = ReadsWindowScript ->
            [throws |-> FALSE, value |-> <<Read("window", host), text>>]
      [] code = ReadsDocumentScript ->
            [throws |-> FALSE, value |-> <<Read("document", host), text>>]
      [] OTHER ->
            [throws |-> FALSE, value |-> <<text>>]

NoOutcome == [status |-> "none", tag |-> "", value |-> <<>>]

SandboxReturned(text) == [status |-> "ok", tag |-> "", value |-> text]

\* the error as transform or the promise raised it
Raised(message) == [status |-> "error", tag |-> "", value |-> message]

\* throw new Error(`Script execution failed: ${message}`)
Failed(message) ==
    [status |-> "error", tag |-> "Script execution failed", value |-> message]

MissingTransform == <<"Script must define a transform() function">>

\* executeSandbox(scriptCode, content): the whole synchronous call.  An async
\* transform hands back a promise, which the call returns as it is.
ExecuteSandboxCall ==
    /\ sandboxPc = "called"
    /\ IF ~Compiles(scriptSource) THEN
          /\ outcome' = Failed(<<"SyntaxError">>)
          /\ sandboxPc' = "done"
          /\ invocations' = invocations
       ELSE IF TopLevelThrows(scriptSource) THEN
          /\ outcome' = Failed(<<"top">>)
          /\ sandboxPc' = "done"
          /\ invocations' = invocations
       ELSE IF TypeofTransform(scriptSource) # "function" THEN
          /\ outcome' = Failed(MissingTransform)
          /\ sandboxPc' = "done"
          /\ invocations' = invocations
       ELSE
          /\ invocations' = invocations + 1
          /\ IF IsAsync(scriptSource) THEN
                /\ sandboxPc' = "promise"
                /\ outcome' = outcome
             ELSE
                LET r == TransformBody(scriptSource, content, hostGlobals) IN
                /\ sandboxPc' = "done"
                /\ outcome' = IF r.throws THEN Failed(r.value)
                              ELSE SandboxReturned(r.value)
    /\ UNCHANGED <<scriptSource, content, hostGlobals, convertVars, cacheVars,
                   renderVars, returned, pairVars, embedVars, extraVars>>

\* the promise of an async transform settles at the caller's await; the
\* try/catch of executeSandbox is no longer on the stack
PromiseSettles ==
    /\ sandboxPc = "promise"
    /\ LET r == TransformBody(scriptSource, content, hostGlobals) IN
        outcome' = IF r.throws THEN Raised(r.value)
                   ELSE SandboxReturned(r.value)
    /\ sandboxPc' = "done"
    /\ UNCHANGED <<scriptSource, content, hostGlobals, invocations, convertVars,
                   cacheVars, renderVars,
                   returned, pairVars, embedVars, extraVars>>

\* no sandbox run of its own
SandboxIdle ==
    /\ scriptSource = ""
    /\ content = ""
    /\ hostGlobals = [id \in HostIdentifiers |-> "[object A]"]
    /\ sandboxPc = "idle"
    /\ invocations = 0
    /\ outcome = NoOutcome

\* ------------------------------------------------------------- TypstCache
\* capacities and keys the cache is exercised with
MaxCacheSize == 2

CacheKeys == {"", "k1", "k2", "k3", "k4"}

Svgs == {"<svg>1</svg>", "<svg>2</svg>"}

NoEntry == "<no entry>"

EmptyCache == [k \in CacheKeys |-> NoEntry]

\* the keys of the Map
Cached(c) == {k \in DOMAIN c : c[k] # NoEntry}

\* cache.size
Size(c) == Cardinality(Cached(c))

\* accessOrder.indexOf(codeHash), 0 for -1
RECURSIVE IndexFrom(_, _, _)
IndexFrom(order, k, i) ==
    IF i > Len(order) THEN 0
    ELSE IF order[i] = k THEN i
    ELSE IndexFrom(order, k, i + 1)

IndexOf(order, k) == IndexFrom(order, k, 1)

\* removeFromAccessOrder: splice out the first occurrence
removeFromAccessOrder(order, k) ==
    LET i == IndexOf(order, k) IN
    IF i = 0 THEN order
    ELSE SubSeq(order, 1, i - 1) \o SubSeq(order, i + 1, Len(order))

\* updateAccessOrder
updateAccessOrder(order, k) == Append(removeFromAccessOrder(order, k), k)

\* if (oldest): the empty string is falsy
Deletes(oldest) == oldest # ""

\* evictOldest on the pair (Map, accessOrder)
evictOldest(c, order) ==
    IF Len(order) = 0 THEN [cache |-> c, accessOrder |-> order]
    ELSE [cache |-> IF Deletes(Head(order))
                    THEN [c EXCEPT ![Head(order)] = NoEntry] ELSE c,
          accessOrder |-> Tail(order)]

\* (variant: a full cache grows)
IsFullNever(c, n) == FALSE

\* this.cache.size >= this.maxSize
IsFull(c, n) == Size(c) >= n

\* set(codeHash, svg) on the pair (Map, accessOrder)
CacheSet(c, order, n, k, svg) ==
    LET o1 == IF c[k] # NoEntry THEN removeFromAccessOrder(order, k) ELSE order
        e  == IF IsFull(c, n) THEN evictOldest(c, o1)
              ELSE [cache |-> c, accessOrder |-> o1]
    IN [cache |-> [e.cache EXCEPT ![k] = svg],
        accessOrder |-> Append(e.accessOrder, k)]

\* the key goes to the most recent end of the history
Touch(seq, k) == Append(SelectSeq(seq, LAMBDA x : x # k), k)

\* get(codeHash): a miss changes nothing, a hit promotes the key
Get(k) ==
    /\ IF cache[k] = NoEntry THEN UNCHANGED <<accessOrder, recency>>
       ELSE /\ accessOrder' = updateAccessOrder(accessOrder, k)
            /\ recency' = Touch(recency, k)
    /\ UNCHANGED <<cache, maxSize, convertVars, sandboxVars, renderVars,
                   returned, pairVars, embedVars, extraVars>>

\* set(codeHash, svg)
Set(k, svg) ==
    /\ LET r == CacheSet(cache, accessOrder, maxSize, k, svg) IN
        /\ cache' = r.cache
        /\ accessOrder' = r.accessOrder
    /\ recency' = Touch(recency, k)
    /\ UNCHANGED <<maxSize, convertVars, sandboxVars, renderVars, returned, pairVars, embedVars, extraVars>>

\* clear()
Clear ==
    /\ cache' = EmptyCache
    /\ accessOrder' = <<>>
    /\ recency' = <<>>
    /\ UNCHANGED <<maxSize, convertVars, sandboxVars, renderVars, returned, pairVars, embedVars, extraVars>>

\* new TypstCache(maxSize): maxSize <= 0 throws
NewCache(n) ==
    /\ n > 0
    /\ maxSize = n
    /\ cache = EmptyCache
    /\ accessOrder = <<>>
    /\ recency = <<>>

\* ------------------------------------------------------ TypstWasmRenderer
\* renderToSVG calls in flight at once
MaxRenders == 2

Renders == 1..MaxRenders

Codes == {"$a$", "$b$", "$c$", "#bad"}

\* hashCode: SHA-256 of the code, in hex
hashCode(code) ==
    CASE code = "$a$" -> "k1"
      [] code = "$b$" -> "k2"
      [] code = "$c$" -> "k3"
      [] OTHER        -> "k4"

\* compile: the svg of the code, or the compilation fails
CompileFails(code) == code = "#bad"

compile(code) ==
    CASE code = "$b$" -> "<svg>2</svg>"
      [] code = "$c$" -> ""
      [] OTHER        -> "<svg>1</svg>"

\* one cache operation as it took effect
GetOp(k) == [op |-> "get", key |-> k, svg |-> NoEntry]

SetOp(k, svg) == [op |-> "set", key |-> k, svg |-> svg]

\* the cache after running the logged operations one after the other
RECURSIVE Replay(_, _, _, _)
Replay(log, n, c, order) ==
    IF log = <<>> THEN [cache |-> c, accessOrder |-> order]
    ELSE LET o == Head(log) IN
         IF o.op = "set"
         THEN LET r == CacheSet(c, order, n, o.key, o.svg)
              IN Replay(Tail(log), n, r.cache, r.accessOrder)
         ELSE Replay(Tail(log), n, c,
                     IF c[o.key] = NoEntry THEN order
                     ELSE updateAccessOrder(order, o.key))

CallAt(p, code) == [pc |-> p, code |-> code, codeHash |-> "", svg |-> NoEntry]

\* (variant: initialize() does not look at this.initPromise)
InitializeStartsUnlessDone(done, promise) == ~done

\* initialize(): doInitialize() is called when neither this.initialized nor
\* this.initPromise is set
InitializeStarts(done, promise) == ~done /\ promise = "null"

\* renderToSVG(code) to its first await: initialize() if need be, else hashCode
RenderToSVG(r) ==
    /\ renders[r].pc = "called"
    /\ IF initialized THEN
          /\ renders' = [renders EXCEPT ![r].pc = "hashing"]
          /\ UNCHANGED <<initPromise, doInitializeStarts>>
       ELSE
          /\ renders' = [renders EXCEPT ![r].pc = "initializing"]
          /\ IF InitializeStarts(initialized, initPromise) THEN
                /\ initPromise' = "pending"
                /\ doInitializeStarts' = doInitializeStarts + 1
             ELSE UNCHANGED <<initPromise, doInitializeStarts>>
    /\ UNCHANGED <<initialized, opLog, cacheVars, convertVars, sandboxVars,
                   returned, pairVars, embedVars, extraVars>>

\* initialize() called by the plugin or the settings tab, to its first await
Initialize(r) ==
    /\ renders[r].pc = "calledInitialize"
    /\ IF initialized THEN
          /\ renders' = [renders EXCEPT ![r].pc = "done"]
          /\ UNCHANGED <<initPromise, doInitializeStarts>>
       ELSE
          /\ renders' = [renders EXCEPT ![r].pc = "awaitingInitialize"]
          /\ IF InitializeStarts(initialized, initPromise) THEN
                /\ initPromise' = "pending"
                /\ doInitializeStarts' = doInitializeStarts + 1
             ELSE UNCHANGED <<initPromise, doInitializeStarts>>
    /\ UNCHANGED <<initialized, opLog, cacheVars, convertVars, sandboxVars,
                   returned, pairVars, embedVars, extraVars>>

\* the promise initialize() returned settles for its caller
InitializeSettles(r) ==
    /\ renders[r].pc = "awaitingInitialize"
    /\ initPromise \in {"resolved", "rejected"}
    /\ renders' = [renders EXCEPT ![r].pc =
                      IF initPromise = "resolved" THEN "done" ELSE "failed"]
    /\ UNCHANGED <<initialized, initPromise, opLog, doInitializeStarts, cacheVars,
                   convertVars, sandboxVars, returned, pairVars, embedVars,
                   extraVars>>

\* doInitialize() finishes: the WASM is loaded, or it is not in storage
DoInitialize ==
    /\ initPromise = "pending"
    /\ \E loaded \in BOOLEAN :
        /\ initialized' = loaded
        /\ initPromise' = IF loaded THEN "resolved" ELSE "rejected"
    /\ UNCHANGED <<renders, opLog, doInitializeStarts, cacheVars, convertVars,
                   sandboxVars, returned, pairVars, embedVars, extraVars>>

\* await this.initialize() returns or throws
InitializeReturns(r) ==
    /\ renders[r].pc = "initializing"
    /\ initPromise \in {"resolved", "rejected"}
    /\ renders' = [renders EXCEPT ![r].pc =
                      IF initPromise = "resolved" THEN "hashing" ELSE "failed"]
    /\ UNCHANGED <<initialized, initPromise, opLog, doInitializeStarts, cacheVars,
                   convertVars, sandboxVars, returned, pairVars, embedVars,
                   extraVars>>

\* cache.get(codeHash): the svg of the entry, or null
CacheGetResult(c, h) == IF c[h] = NoEntry THEN Undefined ELSE c[h]

\* await hashCode(code) returns; cached = cache.get(codeHash), which promotes
\* an entry it finds; if (cached) returns it, otherwise compile is called
HashReturns(r) ==
    /\ renders[r].pc = "hashing"
    /\ LET h == hashCode(renders[r].code) IN
        /\ opLog' = Append(opLog, GetOp(h))
        /\ IF cache[h] = NoEntry THEN UNCHANGED <<accessOrder, recency>>
           ELSE /\ accessOrder' = updateAccessOrder(accessOrder, h)
                /\ recency' = Touch(recency, h)
        /\ IF Truthy(CacheGetResult(cache, h)) THEN
              renders' = [renders EXCEPT ![r].pc = "done",
                                         ![r].codeHash = h,
                                         ![r].svg = cache[h]]
           ELSE
              renders' = [renders EXCEPT ![r].pc = "compiling",
                                         ![r].codeHash = h]
    /\ UNCHANGED <<cache, maxSize, initialized, initPromise, doInitializeStarts,
                   convertVars, sandboxVars, returned, pairVars, embedVars,
                   extraVars>>

\* await compile(code) returns: cache.set, return the svg; or it throws
CompileReturns(r) ==
    /\ renders[r].pc = "compiling"
    /\ IF CompileFails(renders[r].code) THEN
          /\ renders' = [renders EXCEPT ![r].pc = "failed"]
          /\ UNCHANGED <<cache, accessOrder, recency, opLog>>
       ELSE
          LET svg == compile(renders[r].code)
              res == CacheSet(cache, accessOrder, maxSize, renders[r].codeHash, svg)
          IN /\ cache' = res.cache
             /\ accessOrder' = res.accessOrder
             /\ recency' = Touch(recency, renders[r].codeHash)
             /\ opLog' = Append(opLog, SetOp(renders[r].codeHash, svg))
             /\ renders' = [renders EXCEPT ![r].pc = "done", ![r].svg = svg]
    /\ UNCHANGED <<maxSize, initialized, initPromise, doInitializeStarts,
                   convertVars, sandboxVars, returned, pairVars, embedVars,
                   extraVars>>

\* no render in flight
RendererIdle ==
    /\ initialized = FALSE
    /\ initPromise = "null"
    /\ renders = [r \in Renders |-> CallAt("idle", "")]
    /\ opLog = <<>>
    /\ doInitializeStarts = 0

\* ---------------------------------------------- structural conversion alone
\* nothing destructured, loaded or converted yet
Fresh ==
    /\ transformMode = Undefined
    /\ scriptName = Undefined
    /\ maxEmbedDepth = 0
    /\ currentFile = Undefined
    /\ phase = "none"
    /\ loadName = Undefined
    /\ scriptCode = Absent
    /\ stack = <<>>
    /\ pendingIO = {}
    /\ ioLog = <<>>
    /\ result = NoResult

\* the script directory after the plugin loaded: default.js written and cached
LoadedStore ==
    /\ scriptFiles = [n \in ScriptNames |->
                        IF n = DEFAULT_SCRIPT_NAME THEN DEFAULT_SCRIPT_CONTENT
                        ELSE Absent]
    /\ scriptCache = scriptFiles
    /\ scriptDirExists = TRUE

\* convertMarkdown(markdown, {transformMode: "ast", maxEmbedDepth, currentFile})
\* on any vault, for every whole depth up to MaxDepth
Init ==
    /\ files \in Vaults(MaxVaultNodes)
    /\ input = [kind |-> "file", text |-> <<>>, path |-> "A.md", extension |-> "md"]
    /\ \E d \in 0..MaxDepth :
        /\ apiOptions = [transformMode |-> "ast", scriptName |-> Undefined,
                         maxEmbedDepth |-> JsNumber(JsNum(d))]
        /\ mdOptions = FileCallOptions(apiOptions, "A.md")
    /\ settings = [transformMode |-> "ast",
                   maxEmbedDepth |-> JsNum(DefaultMaxEmbedDepth)]
    /\ markdown = files["A.md"]
    /\ pc = "SelectingStrategy"
    /\ trace = <<"SelectingStrategy">>
    /\ LoadedStore
    /\ Fresh
    /\ SandboxIdle
    /\ NewCache(1)
    /\ RendererIdle
    /\ returned = <<>>
    /\ PairIdle
    /\ EmbedIdle
    /\ ExtraIdle

Next ==
    \/ SelectStrategy
    \/ MarkdownToTypst
    \/ RenderText
    \/ IssueResolve
    \/ ResolveReturns
    \/ ReadReturns
    \/ EmbedReturns
    \/ StructuralDone

Spec == Init /\ [][Next]_vars

\* ------------------------------------------------------ the API, end to end
\* a vault without embed cycles
AcyclicVault ==
    [f \in MdFiles |-> IF f = "A.md" THEN <<TextNode, EmbedNode("B")>>
                       ELSE <<EmbedNode("nope")>>]

Inputs ==
    {[kind |-> "string", text |-> t, path |-> "", extension |-> ""] :
        t \in {<<>>, <<TextNode, EmbedNode("A")>>}}
    \cup
    {[kind |-> "file", text |-> <<>>, path |-> p[1], extension |-> p[2]] :
        p \in {<<"A.md", "md">>, <<PdfFile, "pdf">>}}

\* option values a caller can pass, inside and outside the declared types
OptionValues ==
    [transformMode : {Undefined, "ast", "script", "", "bogus"},
     scriptName    : {Undefined, "", "custom.js", "nope", "default"},
     maxEmbedDepth : {JsUndefined, JsString, JsNumber(JsNum(-1)),
                      JsNumber(JsNum(0)), JsNumber(JsNum(1)),
                      JsNumber(JsNum(1) + 1)}]

\* the script directory: before or after the default script was written, the
\* default script as shipped or saved over, a custom script of each behaviour
Stores ==
    {[files |-> [n \in ScriptNames |->
                    CASE n = DEFAULT_SCRIPT_NAME -> d[1]
                      [] n = "custom"            -> c
                      [] OTHER                   -> Absent],
      cache |-> [n \in ScriptNames |->
                    IF n = DEFAULT_SCRIPT_NAME THEN d[2] ELSE Absent]] :
        d \in {<<Absent, Absent>>,
               <<DEFAULT_SCRIPT_CONTENT, DEFAULT_SCRIPT_CONTENT>>,
               <<"edited-default", Absent>>},
        c \in {Absent, "custom-returns", "custom-throws", "custom-bare"}}

InitApi ==
    /\ files = AcyclicVault
    /\ input \in Inputs
    /\ apiOptions \in OptionValues
    /\ settings \in [transformMode : {"ast", "script"},
                     maxEmbedDepth : {JsNum(DefaultMaxEmbedDepth)}]
    /\ mdOptions = StringCallOptions(apiOptions)
    /\ markdown = <<>>
    /\ pc = "convertAsync"
    /\ trace = <<>>
    /\ \E s \in Stores :
        /\ scriptFiles = s.files
        /\ scriptCache = s.cache
        /\ scriptDirExists = (s.files[DEFAULT_SCRIPT_NAME] # Absent)
    /\ Fresh
    /\ SandboxIdle
    /\ NewCache(1)
    /\ RendererIdle
    /\ returned = <<>>
    /\ PairIdle
    /\ EmbedIdle
    /\ ExtraIdle

NextApi ==
    \/ ConvertAsync
    \/ FileRead
    \/ SelectStrategy
    \/ LoadScript
    \/ ExistsReturns
    \/ EnsureScriptDirectory
    \/ WriteDefault
    \/ ScriptRead
    \/ ExecuteSandbox
    \/ MarkdownToTypst
    \/ RenderText
    \/ IssueResolve
    \/ ResolveReturns
    \/ ReadReturns
    \/ EmbedReturns
    \/ StructuralDone

SpecApi == InitApi /\ [][NextApi]_vars

\* the same, with every enabled step eventually taken
LiveSpecApi == InitApi /\ [][NextApi]_vars /\ WF_vars(NextApi)

\* the same, with every enabled step eventually taken: an Environment call
\* that was issued returns, and the engine runs on
LiveSpec == Init /\ [][Next]_vars /\ WF_vars(Next)

\* ------------------------------------------------- reading an output back
IsOpen(tok) == tok.k = "quote["

IsClose(tok) == tok.k = "]"

Delta(tok) == IF IsOpen(tok) THEN 1 ELSE IF IsClose(tok) THEN -1 ELSE 0

\* indices of the fragments at nesting level 0, in order; a quote counts as
\* its opener
RECURSIVE TopsFrom(_, _, _, _)
TopsFrom(seq, j, lvl, acc) ==
    IF j > Len(seq) THEN acc
    ELSE TopsFrom(seq, j + 1, lvl + Delta(seq[j]),
                  IF lvl = 0 THEN Append(acc, j) ELSE acc)

Tops(seq) == TopsFrom(seq, 1, 0, <<>>)

\* the closing bracket of a quote, searched from q with `open` quotes opened
\* since; 0 when there is none
RECURSIVE CloseFrom(_, _, _)
CloseFrom(seq, q, open) ==
    IF q > Len(seq) THEN 0
    ELSE IF IsClose(seq[q]) /\ open = 0 THEN q
    ELSE CloseFrom(seq, q + 1, open + Delta(seq[q]))

\* what the quote opened at p holds after its source annotation
Body(seq, p) == SubSeq(seq, p + 2, CloseFrom(seq, p + 1, 0) - 1)

IsPrefix(a, b) == Len(a) <= Len(b) /\ SubSeq(b, 1, Len(a)) = a

\* depth-first, left-to-right order on node positions
DfsLE(a, b) ==
    \/ IsPrefix(a, b)
    \/ \E i \in 1..Len(a) :
        /\ i <= Len(b)
        /\ a[i] < b[i]
        /\ \A j \in 1..(i - 1) : a[j] = b[j]

\* ------------------------------------------------------------ C1 .. C6
\* C1: whatever the embed graph (cycles and self-embeds included) and whatever
\* maxEmbedDepth >= 0, a structural conversion whose Environment calls all
\* return eventually completes and returns text.
C1_Terminates == <>(pc = "Done" /\ result.status = "ok")

Embeds(nodes, link) == \E i \in 1..Len(nodes) : nodes[i] = EmbedNode(link)

HasKind(seq, kind) == \E j \in 1..Len(seq) : seq[j].k = kind

\* a conversion over the cycle A -> B -> A came back, cut by the depth
C1_Witness ==
    /\ pc = "Done"
    /\ result.status = "ok"
    /\ Embeds(files["A.md"], "B")
    /\ Embeds(files["B.md"], "A")
    /\ maxEmbedDepth > 0
    /\ HasKind(result.text, "depthLimited")

\* C2: on the current recursion path there are never more nested expansions
\* than maxEmbedDepth; no frame holds a negative remainingDepth and each
\* nested conversion holds exactly its parent's remainingDepth - 1.
C2_DepthBound ==
    /\ stack # <<>> =>
        /\ stack[1].depth = maxEmbedDepth
        /\ JsNum(Len(stack) - 1) <= maxEmbedDepth
    /\ \A l \in 1..Len(stack) : stack[l].depth >= 0
    /\ \A l \in 2..Len(stack) : stack[l].depth = stack[l - 1].depth - JsNum(1)

\* the recursion used the whole budget
C2_Witness ==
    /\ maxEmbedDepth = JsNum(MaxDepth)
    /\ JsNum(Len(stack) - 1) = maxEmbedDepth
    /\ Top.depth = 0

\* the top-level fragments of seq are the conversions of nodes, one per node
\* and in order, and every markup embed that still has depth budget is a quote
\* annotated with the target's path whose body is the target's conversion
RECURSIVE WellExpanded(_, _, _, _)
WellExpanded(seq, nodes, doc, budget) ==
    LET top == Tops(seq) IN
    /\ Len(top) = Len(nodes)
    /\ \A i \in 1..Len(nodes) :
        LET p == top[i]
            r == resolveFilePath(nodes[i].target)
        IN
        IF nodes[i].kind = "text" THEN seq[p] = Tok("text", doc, i)
        ELSE (r.found /\ r.isMarkdown /\ budget > 0) =>
            /\ seq[p] = Tok("quote[", r.path, 0)
            /\ seq[p + 1] = Tok("smallcaps", r.path, 0)
            /\ seq[CloseFrom(seq, p + 1, 0)] = Tok("]", r.path, 0)
            /\ WellExpanded(Body(seq, p), files[r.path], r.path, budget - 1)

\* C3: along every embed chain D0 -> D1 -> ... -> DL of resolvable markup
\* files with L <= maxEmbedDepth, the output holds the conversion of each Di
\* in a quote annotated with Di's path; none of them is a placeholder.
C3_ChainQuoted ==
    pc = "Done" =>
        WellExpanded(result.text, markdown, currentFile, maxEmbedDepth \div 2)

\* A.md embeds B, B.md embeds A and has text, depth 2: B's quote holds A's
C3_Witness ==
    /\ pc = "Done"
    /\ maxEmbedDepth = JsNum(2)
    /\ files["A.md"] = <<EmbedNode("B")>>
    /\ files["B.md"] = <<TextNode, EmbedNode("A")>>
    /\ result.text =
         <<Tok("quote[", "B.md", 0), Tok("smallcaps", "B.md", 0),
           Tok("text", "B.md", 1),
           Tok("quote[", "A.md", 0), Tok("smallcaps", "A.md", 0),
           Tok("depthLimited", "B", 0),
           Tok("]", "A.md", 0), Tok("]", "B.md", 0)>>

\* the engine sits on a resolved markup embed with no depth left
AtExhaustedEmbed ==
    /\ Running
    /\ Top.await = "resolve"
    /\ Top.depth = 0
    /\ resolveFilePath(CurNode.target).found
    /\ resolveFilePath(CurNode.target).isMarkdown

\* C4: a resolvable markup embed reached with remainingDepth = 0 becomes a
\* depth-limited placeholder, which is not the not-found placeholder; its
\* target is not read and the engine does not recurse.
C4_DepthLimited ==
    [][AtExhaustedEmbed =>
        /\ Len(stack') = Len(stack)
        /\ ioLog' = ioLog
        /\ pendingIO' = {}
        /\ stack'[Len(stack)].idx = Top.idx + 1
        /\ stack'[Len(stack)].out =
             Top.out \o <<Tok("depthLimited", CurNode.target, 0)>>
        /\ Tok("depthLimited", CurNode.target, 0) # BrokenEmbed(CurNode.target)
      ]_vars

\* a top-level embed was cut with maxEmbedDepth = 0, and nothing was read
C4_Witness ==
    /\ pc = "Done"
    /\ maxEmbedDepth = 0
    /\ HasKind(result.text, "depthLimited")
    /\ \A j \in 1..Len(ioLog) : ioLog[j].op # "read"

Unresolvable(node) ==
    node.kind = "embedDocument" /\ ~resolveFilePath(node.target).found

\* seq covers exactly the first `passed` nodes: a text node is its fragment,
\* an unresolvable embed is a placeholder that carries the raw target
PassedNodesPresent(seq, nodes, doc, passed) ==
    LET top == Tops(seq) IN
    /\ Len(top) = passed
    /\ \A i \in 1..passed :
        LET p == top[i] IN
        /\ nodes[i].kind = "text" => seq[p] = Tok("text", doc, i)
        /\ Unresolvable(nodes[i]) =>
             seq[p] = Tok("brokenEmbed", nodes[i].target, 0)

\* C5: an embed whose target does not resolve becomes a broken-embed
\* placeholder with the raw target text; no error is raised and every node
\* after it is still converted and present (in every document that has been
\* converted to its end, nested or root).
C5_BrokenEmbed ==
    /\ result.status # "error"
    /\ (Running /\ Top.await = "none" /\ Top.idx > Len(NodesAt(Len(stack)))) =>
        PassedNodesPresent(Top.out, NodesAt(Len(stack)), Top.doc, Top.idx - 1)
    /\ pc = "Done" =>
        PassedNodesPresent(result.text, markdown, currentFile, Len(markdown))

\* a dangling embed in front of a text node: both are in the result
C5_Witness ==
    /\ pc = "Done"
    /\ result.status = "ok"
    /\ markdown = <<EmbedNode("nope"), TextNode>>
    /\ result.text = <<Tok("brokenEmbed", "nope", 0), Tok("text", "A.md", 2)>>

\* the fragments of seq follow the nodes in source order, quotes included
RECURSIVE InSourceOrder(_, _, _)
InSourceOrder(seq, nodes, doc) ==
    LET top == Tops(seq) IN
    /\ Len(top) = Len(nodes)
    /\ \A i \in 1..Len(nodes) :
        LET p == top[i]
            r == resolveFilePath(nodes[i].target)
        IN
        IF nodes[i].kind = "text" THEN seq[p] = Tok("text", doc, i)
        ELSE
            /\ seq[p].k \in {"brokenEmbed", "depthLimited", "image", "quote["}
            /\ seq[p].t \in {nodes[i].target, r.path}
            /\ seq[p].k = "quote[" =>
                 InSourceOrder(Body(seq, p), files[r.path], r.path)

\* C6: sibling embeds are expanded one at a time in source order: at most one
\* Environment call is in flight and it belongs to the embed being expanded,
\* each call is issued after the previous one in depth-first source order
\* (the log only grows, so the latest pair is every pair in turn), and the
\* output fragments are in source order.
C6_Sequential ==
    /\ Cardinality(pendingIO) <= 1
    /\ \A req \in pendingIO : Running /\ req.pos = Pos
    /\ Len(ioLog) > 1 =>
         DfsLE(ioLog[Len(ioLog) - 1].pos, ioLog[Len(ioLog)].pos)
    /\ pc = "Done" => InSourceOrder(result.text, markdown, currentFile)

\* two sibling markup embeds, each with a nested embed of its own
C6_Witness ==
    /\ pc = "Done"
    /\ markdown = <<EmbedNode("B"), EmbedNode("B")>>
    /\ files["B.md"] = <<EmbedNode("nope")>>
    /\ maxEmbedDepth = JsNum(1)
    /\ Len(ioLog) = 6

\* ------------------------------------------------------------ orchestrator
\* the strategy the call has to take: the option if given, else the setting
RequiredStrategy ==
    IF (IF mdOptions.transformMode # Undefined THEN mdOptions.transformMode
        ELSE settings.transformMode) = "script"
    THEN "RunningScript" ELSE "RunningStructural"

C7_Shape ==
    /\ IsPrefix(trace, <<"SelectingStrategy", RequiredStrategy, "Done">>)
    /\ trace # <<>> => pc = trace[Len(trace)]
    /\ (trace # <<>> /\ pc = "Done") => result.status \in {"ok", "error"}
    /\ (trace # <<>> /\ pc # "Done") => result = NoResult

\* C7: a convertMarkdown call goes SelectingStrategy, then exactly one of
\* RunningScript and RunningStructural (RunningScript iff the option, or
\* without it the setting, is "script"), then Done with a text or an error;
\* and every call that started selecting gets to Done.
C7_StateMachine ==
    /\ []C7_Shape
    /\ (pc = "SelectingStrategy") ~> (pc = "Done")

\* the option is left out and the setting decides for the script strategy
C7_Witness ==
    /\ pc = "Done"
    /\ trace = <<"SelectingStrategy", "RunningScript", "Done">>
    /\ mdOptions.transformMode = Undefined
    /\ settings.transformMode = "script"
    /\ result.status = "ok"

\* ------------------------------------------------------------ validation
NothingConverted ==
    /\ trace = <<>>
    /\ phase = "none"
    /\ scriptCode = Absent
    /\ stack = <<>>
    /\ ioLog = <<>>

BadDepth ==
    /\ apiOptions.maxEmbedDepth.t = "number"
    /\ apiOptions.maxEmbedDepth.n < 0 \/ ~IsInteger(apiOptions.maxEmbedDepth.n)

\* a text to convert, or a markdown file
Convertible ==
    \/ input.kind = "string" /\ Len(input.text) > 0
    \/ input.kind = "file" /\ input.extension = "md"

\* C8: convertAsync with a negative or a non-integer maxEmbedDepth performs no
\* conversion step (no strategy, no script load, no parsing, no Environment
\* call) and ends rejecting with the invalid-configuration error; stated for
\* the inputs there is something to convert for.
C8_RejectsBadDepth ==
    (BadDepth /\ Convertible) =>
        /\ NothingConverted
        /\ pc \in {"convertAsync", "Done"}
        /\ pc = "Done" => result = Thrown("InvalidConfiguration")

BadMode == apiOptions.transformMode \notin {Undefined, "ast", "script"}

\* C9: convertAsync with a transformMode that is neither "ast" nor "script"
\* never enters a strategy and ends rejecting with the invalid-configuration
\* error; stated for the inputs there is something to convert for.
C9_RejectsBadMode ==
    (BadMode /\ Convertible) =>
        /\ NothingConverted
        /\ pc \in {"convertAsync", "Done"}
        /\ pc = "Done" => result = Thrown("InvalidConfiguration")

\* ------------------------------------------------------------ script names
\* the call names no script, an empty one, or one that is not in the directory
NoSuchScript ==
    \/ mdOptions.scriptName \in {Undefined, "", "nope"}
    \/ mdOptions.scriptName = "custom.js" /\ scriptFiles["custom"] = Absent

ScriptLoaded == pc = "RunningScript" /\ phase \in {"sandbox", "convertToTypst"}

\* C10: in script mode, with the script name missing, empty or naming no
\* existing script, loadScript returns the text of the default script and the
\* conversion goes on with it and does not fail.
C10_DefaultFallback ==
    (Len(trace) >= 2 /\ trace[2] = "RunningScript" /\ NoSuchScript) =>
        /\ ScriptLoaded =>
             /\ scriptCode # Absent
             /\ scriptCode = scriptFiles[DEFAULT_SCRIPT_NAME]
        /\ pc = "Done" =>
             /\ result.status = "ok"
             /\ scriptCode = scriptFiles[DEFAULT_SCRIPT_NAME]

\* a name that is not in the directory, and no default script on disk either
C10_Witness ==
    /\ pc = "Done"
    /\ trace = <<"SelectingStrategy", "RunningScript", "Done">>
    /\ mdOptions.scriptName = "nope"
    /\ scriptCode = DEFAULT_SCRIPT_CONTENT
    /\ result = Returned(Template \o stack[1].out)
    /\ ioLog # <<>>

\* ------------------------------------------------------------ side effects
\* C11: a conversion writes nothing to the vault: no step of the call changes
\* the documents, the files of the script directory or the directory itself.
C11_NoVaultWrite ==
    [][/\ files' = files
       /\ scriptFiles' = scriptFiles
       /\ scriptDirExists' = scriptDirExists]_vars

\* ------------------------------------------------- specification: sandbox
\* no conversion call in progress
ConvertIdle ==
    /\ files = AcyclicVault
    /\ input = [kind |-> "string", text |-> <<>>, path |-> "", extension |-> ""]
    /\ apiOptions = [transformMode |-> Undefined, scriptName |-> Undefined,
                     maxEmbedDepth |-> JsUndefined]
    /\ settings = [transformMode |-> "ast",
                   maxEmbedDepth |-> JsNum(DefaultMaxEmbedDepth)]
    /\ mdOptions = StringCallOptions(apiOptions)
    /\ markdown = <<>>
    /\ pc = "idle"
    /\ trace = <<>>
    /\ LoadedStore
    /\ Fresh

\* executeSandbox(scriptCode, content) for every script, text and host
InitSandbox ==
    /\ scriptSource \in ScriptSources
    /\ content \in Contents
    /\ hostGlobals \in [HostIdentifiers -> HostValues]
    /\ sandboxPc = "called"
    /\ invocations = 0
    /\ outcome = NoOutcome
    /\ ConvertIdle
    /\ NewCache(1)
    /\ RendererIdle
    /\ returned = <<>>
    /\ PairIdle
    /\ EmbedIdle
    /\ ExtraIdle

NextSandbox ==
    \/ ExecuteSandboxCall
    \/ PromiseSettles

SpecSandbox == InitSandbox /\ [][NextSandbox]_vars

\* ------------------------------------------------------------ script errors
\* the script fails, at evaluation or in transform
ScriptFails(code) ==
    code \in {SyntaxErrorScript, TopLevelThrowScript, SyncThrowScript,
              AsyncThrowScript}

OriginalMessage(code) ==
    CASE code = SyntaxErrorScript   -> <<"SyntaxError">>
      [] code = TopLevelThrowScript -> <<"top">>
      [] OTHER                      -> <<"boom">>

\* C12: an exception raised while the script source is evaluated or while
\* transform runs, synchronous or asynchronous, reaches the caller as the one
\* error tagged "Script execution failed" with the original message, and
\* transform is called at most once.
C12_TaggedOnce ==
    /\ invocations <= 1
    /\ (sandboxPc = "done" /\ ScriptFails(scriptSource)) =>
          /\ outcome.status = "error"
          /\ outcome.tag = "Script execution failed"
          /\ outcome.value = OriginalMessage(scriptSource)

LacksTransform(code) == code \in {NoTransformScript, NotCallableScript}

C14_HostIndependent ==
    (sandboxPc = "done" /\ outcome.status = "ok") =>
        \A host \in [HostIdentifiers -> HostValues] :
            TransformBody(scriptSource, content, host).value = outcome.value

\* ------------------------------------------------- specification: the cache
\* new TypstCache(N), then any get, set and clear calls
InitCache ==
    /\ \E n \in 1..MaxCacheSize : NewCache(n)
    /\ ConvertIdle
    /\ SandboxIdle
    /\ RendererIdle
    /\ returned = <<>>
    /\ PairIdle
    /\ EmbedIdle
    /\ ExtraIdle

CacheGet == \E k \in CacheKeys : Get(k)

CacheSetCall == \E k \in CacheKeys, svg \in Svgs : Set(k, svg)

CacheClear == Clear

NextCache ==
    \/ CacheGet
    \/ CacheSetCall
    \/ CacheClear

SpecCache == InitCache /\ [][NextCache]_vars

\* C15: after any get, set and clear calls on a cache of capacity N >= 1,
\* over any string keys, size() <= N.
C15_SizeBound == Size(cache) <= maxSize

\* the cached key whose latest access, a get hit or a set, is the oldest
LeastRecent(c, history) == Head(SelectSeq(history, LAMBDA k : c[k] # NoEntry))

\* a step in which set puts a key that was not cached into a full cache
InsertsIntoFull ==
    /\ Size(cache) = maxSize
    /\ \E k \in CacheKeys : cache[k] = NoEntry /\ cache'[k] # NoEntry

\* C16: when set inserts a key that is not cached into a cache holding
\* N = capacity entries, exactly one entry is removed, the one whose latest
\* access is the oldest, so that N entries remain.
C16_EvictsLeastRecent ==
    [][InsertsIntoFull =>
         /\ Cached(cache) \ Cached(cache') = {LeastRecent(cache, recency)}
         /\ Size(cache') = maxSize]_vars

\* --------------------------------------------- specification: the renderer
\* renders that ran before: none, or one of "$c$"
EarlierOps == {<<>>, <<GetOp(hashCode("$c$")), SetOp(hashCode("$c$"), compile("$c$"))>>}

\* MaxRenders renderToSVG calls made at once on one renderer
InitRender ==
    /\ maxSize \in 1..MaxCacheSize
    /\ opLog \in EarlierOps
    /\ LET before == Replay(opLog, maxSize, EmptyCache, <<>>) IN
        /\ cache = before.cache
        /\ accessOrder = before.accessOrder
        /\ recency = before.accessOrder
    /\ initialized \in BOOLEAN
    /\ initPromise = IF initialized THEN "resolved" ELSE "null"
    /\ doInitializeStarts = IF initialized THEN 1 ELSE 0
    /\ renders \in [Renders -> {CallAt("called", code) : code \in Codes}]
    /\ ConvertIdle
    /\ SandboxIdle
    /\ returned = <<>>
    /\ PairIdle
    /\ EmbedIdle
    /\ ExtraIdle

Render == \E r \in Renders : RenderToSVG(r)

InitializeResumes == \E r \in Renders : InitializeReturns(r)

HashResumes == \E r \in Renders : HashReturns(r)

CompileResumes == \E r \in Renders : CompileReturns(r)

NextRender ==
    \/ Render
    \/ DoInitialize
    \/ InitializeResumes
    \/ HashResumes
    \/ CompileResumes

SpecRender == InitRender /\ [][NextRender]_vars

\* the sequence lists each element of the set once
ListsOnce(seq, set) ==
    /\ {seq[i] : i \in DOMAIN seq} = set
    /\ Len(seq) = Cardinality(set)

\* C17: under every interleaving of concurrent renderToSVG calls on one cache
\* the cache is the one that running its get and set operations one after the
\* other, in the order they took effect, produces; it never holds more than
\* its capacity and its access order is the order of latest access.
C17_Serializable ==
    /\ LET seq == Replay(opLog, maxSize, EmptyCache, <<>>) IN
        /\ cache = seq.cache
        /\ accessOrder = seq.accessOrder
    /\ Size(cache) <= maxSize
    /\ ListsOnce(accessOrder, Cached(cache))
    /\ accessOrder = SelectSeq(recency, LAMBDA k : cache[k] # NoEntry)

\* two calls for different codes both missed before either set; the cache is
\* full and the entry of the earlier render was evicted
C17_Witness ==
    /\ \A r \in Renders : renders[r].pc = "done"
    /\ renders[1].code # renders[2].code
    /\ Len(opLog) = 6
    /\ opLog[3].op = "get" /\ opLog[4].op = "get"
    /\ opLog[5].op = "set" /\ opLog[6].op = "set"
    /\ Size(cache) = maxSize
    /\ hashCode("$c$") \notin Cached(cache)

\* ------------------------------------ specification: the same conversion twice
\* the call returned and the same call is made again, on the same vault, with
\* the same text and options; the frames of the call that returned are gone,
\* everything else is as that call left it
ConvertAgain ==
    /\ pc = "Done"
    /\ returned = <<>>
    /\ returned' = <<result>>
    /\ pc' = "SelectingStrategy"
    /\ trace' = <<"SelectingStrategy">>
    /\ stack' = <<>>
    /\ UNCHANGED <<callVars, localVars, storeVars, scriptVars, pendingIO, ioLog,
                   result, sandboxVars, cacheVars, renderVars, pairVars, embedVars, extraVars>>

NextTwice ==
    \/ SelectStrategy
    \/ MarkdownToTypst
    \/ RenderText
    \/ IssueResolve
    \/ ResolveReturns
    \/ ReadReturns
    \/ EmbedReturns
    \/ StructuralDone
    \/ ConvertAgain

SpecTwice == Init /\ [][NextTwice]_vars

Context ==
    [mdOptions |-> mdOptions, markdown |-> markdown,
     transformMode |-> transformMode, scriptName |-> scriptName,
     maxEmbedDepth |-> maxEmbedDepth, currentFile |-> currentFile,
     pc |-> pc, trace |-> trace, phase |-> phase, loadName |-> loadName,
     scriptCode |-> scriptCode, stack |-> stack, pendingIO |-> pendingIO,
     ioLog |-> ioLog, result |-> result]

\* convertMarkdown(markdown, options) entered
CallStart(md, options) ==
    [mdOptions |-> options, markdown |-> md,
     transformMode |-> Undefined, scriptName |-> Undefined,
     maxEmbedDepth |-> 0, currentFile |-> Undefined,
     pc |-> "SelectingStrategy", trace |-> <<"SelectingStrategy">>,
     phase |-> "none", loadName |-> Undefined, scriptCode |-> Absent,
     stack |-> <<>>, pendingIO |-> {}, ioLog |-> <<>>, result |-> NoResult]

\* the event loop runs a continuation of the call that owns ctx
Resume(ctx) ==
    /\ mdOptions' = ctx.mdOptions
    /\ markdown' = ctx.markdown
    /\ transformMode' = ctx.transformMode
    /\ scriptName' = ctx.scriptName
    /\ maxEmbedDepth' = ctx.maxEmbedDepth
    /\ currentFile' = ctx.currentFile
    /\ pc' = ctx.pc
    /\ trace' = ctx.trace
    /\ phase' = ctx.phase
    /\ loadName' = ctx.loadName
    /\ scriptCode' = ctx.scriptCode
    /\ stack' = ctx.stack
    /\ pendingIO' = ctx.pendingIO
    /\ ioLog' = ctx.ioLog
    /\ result' = ctx.result

\* the arguments two callers pass
PairOptions ==
    [transformMode : {"ast", "script"},
     scriptName    : {Undefined, "custom.js", "nope"},
     maxEmbedDepth : {JsUndefined},
     currentFile   : {Undefined}]

PairMarkdown == <<(<<TextNode>>), (<<EmbedNode("B")>>)>>

\* two calls on one converter and one script manager; each is first run alone
\* from the same script directory and cache, then the two run together
InitPair ==
    /\ files = AcyclicVault
    /\ input = [kind |-> "string", text |-> PairMarkdown[1], path |-> "",
                extension |-> ""]
    /\ apiOptions = [transformMode |-> Undefined, scriptName |-> Undefined,
                     maxEmbedDepth |-> JsUndefined]
    /\ settings = [transformMode |-> "ast",
                   maxEmbedDepth |-> JsNum(DefaultMaxEmbedDepth)]
    /\ \E o1 \in PairOptions, o2 \in PairOptions :
        /\ mdOptions = o1
        /\ waiting = CallStart(PairMarkdown[2], o2)
    /\ markdown = PairMarkdown[1]
    /\ pc = "SelectingStrategy"
    /\ trace = <<"SelectingStrategy">>
    /\ \E s \in Stores :
        /\ scriptFiles = s.files
        /\ scriptCache = s.cache
        /\ scriptDirExists = (s.files[DEFAULT_SCRIPT_NAME] # Absent)
    /\ storeAtStart = [files |-> scriptFiles, cache |-> scriptCache,
                       dir |-> scriptDirExists]
    /\ Fresh
    /\ running = 1
    /\ stage = "alone"
    /\ alone = <<>>
    /\ EmbedIdle
    /\ ExtraIdle
    /\ SandboxIdle
    /\ NewCache(1)
    /\ RendererIdle
    /\ returned = <<>>

\* a call run alone returned: note what it returned, put the script directory
\* and cache back, and start the next run
AloneReturns ==
    /\ stage = "alone"
    /\ pc = "Done"
    /\ alone' = Append(alone, result)
    /\ scriptFiles' = storeAtStart.files
    /\ scriptCache' = storeAtStart.cache
    /\ scriptDirExists' = storeAtStart.dir
    /\ Resume(waiting)
    /\ waiting' = CallStart(markdown, mdOptions)
    /\ running' = 3 - running
    /\ stage' = IF running = 1 THEN "alone" ELSE "together"
    /\ UNCHANGED <<callVars, storeAtStart, sandboxVars, cacheVars, renderVars,
                   returned, embedVars, extraVars>>

\* the running call is suspended at an await; the event loop runs the other
Yield ==
    /\ stage = "together"
    /\ waiting.pc # "Done"
    /\ Resume(waiting)
    /\ waiting' = Context
    /\ running' = 3 - running
    /\ UNCHANGED <<callVars, storeVars, stage, alone, storeAtStart, sandboxVars,
                   cacheVars, renderVars, returned, embedVars, extraVars>>

NextPair ==
    \/ SelectStrategy
    \/ LoadScript
    \/ ExistsReturns
    \/ EnsureScriptDirectory
    \/ WriteDefault
    \/ ScriptRead
    \/ ExecuteSandbox
    \/ MarkdownToTypst
    \/ RenderText
    \/ IssueResolve
    \/ ResolveReturns
    \/ ReadReturns
    \/ EmbedReturns
    \/ StructuralDone
    \/ AloneReturns
    \/ Yield

SpecPair == InitPair /\ [][NextPair]_vars

\* the running call probes the script cache
ProbesCache ==
    /\ stage = "together"
    /\ running' = running
    /\ pc = "RunningScript"
    /\ phase = "loadScript"
    /\ phase' # phase

\* the running call asks for, or reads, a script file
ReadsFile ==
    /\ stage = "together"
    /\ running' = running
    /\ pc = "RunningScript"
    /\ phase \in {"exists", "read"}
    /\ phase' # phase

\* a call of the pair returns what it returned alone
SameAsAlone ==
    stage = "together" =>
        /\ pc = "Done" => result = alone[running]
        /\ waiting.pc = "Done" => waiting.result = alone[3 - running]

\* C19 as stated: each of two concurrent calls returns what it returns alone,
\* and no call reads state written during the other: every cache entry and
\* script file a call reads is as it was before the two calls began.
C19_Isolated ==
    /\ []SameAsAlone
    /\ [][/\ ProbesCache =>
                scriptCache[NormalizedOrDefault(loadName)] =
                    storeAtStart.cache[NormalizedOrDefault(loadName)]
          /\ ReadsFile =>
                scriptFiles[loadName] = storeAtStart.files[loadName]]_vars

\* C19: each of two calls running concurrently on one converter, interleaved
\* at their awaits, returns the text (or the error) it returns when run alone
\* from the same script directory and script cache.
C19_SameAsAlone == SameAsAlone

\* both calls ran the same custom script together and returned, and the script
\* is cached now though it was not cached before
C19_Witness ==
    /\ stage = "together"
    /\ pc = "Done"
    /\ waiting.pc = "Done"
    /\ scriptName = "custom.js"
    /\ waiting.scriptName = "custom.js"
    /\ transformMode = "script"
    /\ waiting.transformMode = "script"
    /\ result.status = "ok"
    /\ storeAtStart.cache["custom"] = Absent
    /\ scriptCache["custom"] # Absent

\* ------------------------------------------- a file embed with attributes
\* ![[target|key=value,key=value]]: the values a suffix can give each key
AttributeValues(key) ==
    CASE key = "width" -> {"120pt", "50%"}
      [] key = "page"  -> {"2", "02", "10"}

AttributeKeys == {"width", "page"}

\* key=value
Attribute(key, value) == <<key, value>>

\* the suffixes: no attribute, one, or both in either order
Suffixes ==
    {<<>>}
    \cup {<<Attribute(k, v)>> : k \in {"width"}, v \in AttributeValues("width")}
    \cup {<<Attribute(k, v)>> : k \in {"page"}, v \in AttributeValues("page")}
    \cup {<<Attribute("width", w), Attribute("page", p)>> :
            w \in AttributeValues("width"), p \in AttributeValues("page")}
    \cup {<<Attribute("page", p), Attribute("width", w)>> :
            w \in AttributeValues("width"), p \in AttributeValues("page")}

\* the integer a page value denotes
ParseInteger(value) ==
    CASE value = "2"  -> 2
      [] value = "02" -> 2
      [] value = "10" -> 10

\* the decimal text of a page number
IntText(n) ==
    CASE n = 2  -> "2"
      [] n = 10 -> "10"

\* neither hint given
NoAttributes == [width |-> Undefined, page |-> 0]

\* (variant: only the first attribute of the suffix is taken)
ParseAttributeFirstOnly(a, attr) ==
    IF a # NoAttributes THEN a
    ELSE IF attr[1] = "width" THEN [a EXCEPT !.width = attr[2]]
    ELSE [a EXCEPT !.page = ParseInteger(attr[2])]

\* one key=value of the suffix: width is kept as written, page is an integer
ParseAttribute(a, attr) ==
    IF attr[1] = "width" THEN [a EXCEPT !.width = attr[2]]
    ELSE [a EXCEPT !.page = ParseInteger(attr[2])]

\* the named arguments of the directive: those given, width before page
NamedArguments(a) ==
    (IF a.width # Undefined THEN <<Attribute("width", a.width)>> ELSE <<>>)
    \o (IF a.page # 0 THEN <<Attribute("page", IntText(a.page))>> ELSE <<>>)

\* #image("path", width: ..., page: ...)
ImageDirectiveWith(path, a) ==
    [k |-> "image", t |-> path, i |-> 0, args |-> NamedArguments(a)]

\* a paragraph of plain text
Paragraph == [k |-> "text", t |-> "paragraph", i |-> 0, args |-> <<>>]

\* the broken-embed placeholder
BrokenEmbedFragment(link) ==
    [k |-> "brokenEmbed", t |-> link, i |-> 0, args |-> <<>>]

\* a document of one embed of a PDF or of a missing file, with or without a
\* paragraph before and after it
InitEmbed ==
    /\ embed \in [target : {"C.pdf", "nope"}, suffix : Suffixes,
                  before : BOOLEAN, after : BOOLEAN]
    /\ rest = embed.suffix
    /\ attributes = NoAttributes
    /\ embedPc = "parsing"
    /\ fragments = <<>>
    /\ ConvertIdle
    /\ SandboxIdle
    /\ NewCache(1)
    /\ RendererIdle
    /\ returned = <<>>
    /\ PairIdle
    /\ ExtraIdle

\* the recognizer reads the next key=value of the suffix
ParseSuffix ==
    /\ embedPc = "parsing"
    /\ rest # <<>>
    /\ attributes' = ParseAttribute(attributes, Head(rest))
    /\ rest' = Tail(rest)
    /\ UNCHANGED <<embed, embedPc, fragments, convertVars, sandboxVars, cacheVars,
                   renderVars, returned, pairVars, extraVars>>

\* the suffix is read; the paragraph before the embed is generated
RenderBefore ==
    /\ embedPc = "parsing"
    /\ rest = <<>>
    /\ fragments' = IF embed.before THEN <<Paragraph>> ELSE <<>>
    /\ embedPc' = "resolving"
    /\ UNCHANGED <<embed, rest, attributes, convertVars, sandboxVars, cacheVars,
                   renderVars, returned, pairVars, extraVars>>

\* resolveFilePath returned for the embed
EmbedResolved ==
    /\ embedPc = "resolving"
    /\ LET r == resolveFilePath(embed.target) IN
        fragments' = Append(fragments,
                            IF r.found THEN ImageDirectiveWith(r.path, attributes)
                            ELSE BrokenEmbedFragment(embed.target))
    /\ embedPc' = "after"
    /\ UNCHANGED <<embed, rest, attributes, convertVars, sandboxVars, cacheVars,
                   renderVars, returned, pairVars, extraVars>>

\* the paragraph after the embed is generated; the text is returned
RenderAfter ==
    /\ embedPc = "after"
    /\ fragments' = IF embed.after THEN Append(fragments, Paragraph)
                    ELSE fragments
    /\ embedPc' = "done"
    /\ UNCHANGED <<embed, rest, attributes, convertVars, sandboxVars, cacheVars,
                   renderVars, returned, pairVars, extraVars>>

NextEmbed ==
    \/ ParseSuffix
    \/ RenderBefore
    \/ EmbedResolved
    \/ RenderAfter

SpecEmbed == InitEmbed /\ [][NextEmbed]_vars

\* the attributes the suffix gives, whatever their order
Given == {embed.suffix[n] : n \in DOMAIN embed.suffix}

\* the reference directives in the output
Directives == {n \in DOMAIN fragments : fragments[n].k = "image"}

\* C20: an embed that resolves to non-markup content gives exactly one
\* reference directive; it carries the resolved path, the width exactly as
\* written if the suffix gives one, and the page as an integer if the suffix
\* gives one, and no attribute the suffix does not give. What it carries
\* depends on which attributes the suffix gives, not on their order.
C20_OneDirective ==
    (embedPc = "done" /\ resolveFilePath(embed.target).found
        /\ ~resolveFilePath(embed.target).isMarkdown) =>
        /\ Cardinality(Directives) = 1
        /\ \A n \in Directives :
            LET d == fragments[n]
                named == {d.args[m] : m \in DOMAIN d.args} IN
            /\ d.t = resolveFilePath(embed.target).path
            /\ Cardinality(named) = Len(d.args)
            /\ \A w \in AttributeValues("width") :
                Attribute("width", w) \in Given <=> Attribute("width", w) \in named
            /\ \A p \in AttributeValues("page") :
                Attribute("page", p) \in Given =>
                    Attribute("page", IntText(ParseInteger(p))) \in named
            /\ \A a \in named :
                a[1] = "page" =>
                    \E p \in AttributeValues("page") :
                        /\ Attribute("page", p) \in Given
                        /\ a[2] = IntText(ParseInteger(p))
            /\ \A a \in named : a[1] \in AttributeKeys
            /\ Len(d.args) = 2 => d.args[1][1] = "width"

\* the embed of the PDF with page=02 before width=120pt was converted
C20_Witness ==
    /\ embedPc = "done"
    /\ embed.target = "C.pdf"
    /\ embed.suffix = <<Attribute("page", "02"), Attribute("width", "120pt")>>
    /\ embed.before
    /\ fragments[2] = [k |-> "image", t |-> PdfFile, i |-> 0,
                       args |-> <<Attribute("width", "120pt"),
                                  Attribute("page", "2")>>]

\* --------------------------------------------------- TypstAPI.convert
\* the error convert() throws: use convertAsync() instead
UseConvertAsync == Thrown("UseConvertAsync")

\* (variant: the empty string is answered as convertString answers it)
SyncConvertAnswersEmpty(md, o) ==
    IF Len(md) = 0 THEN Returned(<<>>) ELSE UseConvertAsync

\* convert(markdown, options): throw new Error(...)
SyncConvert(md, o) == UseConvertAsync

\* options passed to convert(), inside and outside the declared types
SyncOptionValues ==
    [transformMode : {Undefined, "ast", "script", "", "bogus"},
     scriptName    : {Undefined},
     maxEmbedDepth : {JsUndefined, JsString, JsNumber(JsNum(-1))}]

\* convert(markdown, options) called at any moment, with any arguments
Convert ==
    \E md \in {in.text : in \in Inputs}, o \in SyncOptionValues :
        /\ syncOutcome' = SyncConvert(md, o)
        /\ UNCHANGED <<convertVars, sandboxVars, cacheVars, renderVars, returned,
                       pairVars, embedVars, besidesSync>>

\* the API with both entry points
NextSync ==
    \/ Convert
    \/ ConvertAsync
    \/ FileRead
    \/ SelectStrategy
    \/ LoadScript
    \/ ExistsReturns
    \/ EnsureScriptDirectory
    \/ WriteDefault
    \/ ScriptRead
    \/ ExecuteSandbox
    \/ MarkdownToTypst
    \/ RenderText
    \/ IssueResolve
    \/ ResolveReturns
    \/ ReadReturns
    \/ EmbedReturns
    \/ StructuralDone

SpecSync == InitApi /\ [][NextSync]_vars

MaxCalls == 3

Slots == {1, 2}

\* names and contents a caller passes
CallNames == {"default", "custom", "custom.js", " "}

SavedContents == {"v1", "v2"}

NoCall ==
    [op |-> "none", name |-> "", content |-> Absent, pc |-> "idle",
     copyTo |-> "", asked |-> "", answer |-> FALSE]

InFlight == {i \in Slots : calls[i] # NoCall}

\* a call may be made now
MayCall(i) ==
    /\ calls[i] = NoCall
    /\ started < MaxCalls
    /\ Cardinality(InFlight) < maxInFlight

\* validateScriptName: the name is not empty
ValidName(normalized) == normalized # ""

\* saveScript: validateScriptName(normalized) is its only guard
SaveAllowed(normalized) == ValidName(normalized)

\* deleteScript: validateScriptName, then the guard on the default template
DeleteAllowed(normalized) ==
    ValidName(normalized) /\ normalized # DEFAULT_SCRIPT_NAME

\* copyScript: validateScriptName(target), then the guard on the default
CopyAllowed(normalizedTarget) ==
    ValidName(normalizedTarget) /\ normalizedTarget # DEFAULT_SCRIPT_NAME

\* saveScript(name, content) after validation: at `await ensureScriptDirectory()`
Saving(name, text) ==
    [NoCall EXCEPT !.op = "save", !.name = name, !.content = text,
                   !.pc = "ensure"]

\* loadScript(name) up to its first await, on behalf of a caller or of
\* copyScript (copyTo): the slot's next state, and what returns at once
Loading(name, asked, copyTo) ==
    LET normalized == NormalizedOrDefault(name) IN
    IF scriptCache[normalized] # Absent THEN
        IF copyTo = "" THEN NoCall
        ELSE Saving(copyTo, scriptCache[normalized])
    ELSE [NoCall EXCEPT !.op = "load", !.name = normalized, !.asked = asked,
                        !.copyTo = copyTo, !.pc = "exists"]

\* what loadScript(name) returns without suspending, if anything
LoadedAtOnce(name, asked, copyTo, last) ==
    LET normalized == NormalizedOrDefault(name) IN
    IF scriptCache[normalized] # Absent /\ copyTo = "" THEN
        [asked |-> asked, ret |-> scriptCache[normalized]]
    ELSE last

\* a loadScript returned content: to its caller, or to copyScript, which saves
Loaded(c, text) ==
    IF c.copyTo = "" THEN NoCall ELSE Saving(c.copyTo, text)

LoadedLast(c, text, last) ==
    IF c.copyTo = "" THEN [asked |-> c.asked, ret |-> text] ELSE last

managerFrame == <<callVars, localVars, scriptVars, engineVars, pc, trace, result,
                  sandboxVars, cacheVars, renderVars, returned, pairVars,
                  embedVars, besidesManager>>

\* loadScript(name) called
StartLoad(i) ==
    \E n \in CallNames :
        /\ MayCall(i)
        /\ started' = started + 1
        /\ calls' = [calls EXCEPT ![i] = Loading(n, NormalizedOrDefault(n), "")]
        /\ lastLoad' = LoadedAtOnce(n, NormalizedOrDefault(n), "", lastLoad)
        /\ UNCHANGED <<storeVars, maxInFlight, managerFrame>>

\* saveScript(name, content) called
StartSave(i) ==
    \E n \in CallNames, c \in SavedContents :
        /\ MayCall(i)
        /\ started' = started + 1
        /\ calls' = [calls EXCEPT ![i] =
                        IF SaveAllowed(normalizeScriptName(n))
                        THEN Saving(normalizeScriptName(n), c) ELSE NoCall]
        /\ UNCHANGED <<storeVars, maxInFlight, lastLoad, managerFrame>>

\* initializeDefaultScript() called
StartInitializeDefault(i) ==
    /\ MayCall(i)
    /\ started' = started + 1
    /\ calls' = [calls EXCEPT ![i] =
                    [Saving(DEFAULT_SCRIPT_NAME, DEFAULT_SCRIPT_CONTENT)
                        EXCEPT !.op = "init"]]
    /\ UNCHANGED <<storeVars, maxInFlight, lastLoad, managerFrame>>

\* deleteScript(name) called
StartDelete(i) ==
    \E n \in CallNames :
        /\ MayCall(i)
        /\ started' = started + 1
        /\ calls' = [calls EXCEPT ![i] =
                        IF DeleteAllowed(normalizeScriptName(n))
                        THEN [NoCall EXCEPT !.op = "delete",
                                            !.name = normalizeScriptName(n),
                                            !.pc = "exists"]
                        ELSE NoCall]
        /\ UNCHANGED <<storeVars, maxInFlight, lastLoad, managerFrame>>

\* copyScript(source, target) called
StartCopy(i) ==
    \E src \in CallNames, tgt \in CallNames :
        /\ MayCall(i)
        /\ started' = started + 1
        /\ calls' = [calls EXCEPT ![i] =
                        IF CopyAllowed(normalizeScriptName(tgt))
                        THEN [NoCall EXCEPT !.op = "copy",
                                            !.name = normalizeScriptName(tgt),
                                            !.asked = normalizeScriptName(src),
                                            !.pc = "exists"]
                        ELSE NoCall]
        /\ UNCHANGED <<storeVars, maxInFlight, lastLoad, managerFrame>>

\* adapter.exists(path) looks at the vault
ExistsAnswers(i) ==
    /\ calls[i].pc = "exists"
    /\ calls' = [calls EXCEPT ![i].answer = (scriptFiles[calls[i].name] # Absent),
                              ![i].pc = "existsDone"]
    /\ UNCHANGED <<storeVars, started, maxInFlight, lastLoad, managerFrame>>

\* loadScript resumes after adapter.exists
LoadAfterExists(i) ==
    LET c == calls[i] IN
    /\ c.op = "load"
    /\ c.pc = "existsDone"
    /\ IF c.answer THEN
          /\ calls' = [calls EXCEPT ![i].pc = "read"]
          /\ lastLoad' = lastLoad
       ELSE IF c.name = DEFAULT_SCRIPT_NAME THEN
          \* await this.initializeDefaultScript()
          /\ calls' = [calls EXCEPT ![i].op = "loadInit",
                                    ![i].content = DEFAULT_SCRIPT_CONTENT,
                                    ![i].pc = "ensure"]
          /\ lastLoad' = lastLoad
       ELSE
          \* return this.loadScript(DEFAULT_SCRIPT_NAME)
          /\ calls' = [calls EXCEPT ![i] =
                          Loading(DEFAULT_SCRIPT_NAME, c.asked, c.copyTo)]
          /\ lastLoad' = LoadedAtOnce(DEFAULT_SCRIPT_NAME, c.asked, c.copyTo,
                                      lastLoad)
    /\ UNCHANGED <<storeVars, started, maxInFlight, managerFrame>>

\* adapter.read(path) reads the file; a missing file makes the call fail
ReadAnswers(i) ==
    LET c == calls[i] IN
    /\ c.pc = "read"
    /\ calls' = [calls EXCEPT ![i] =
                    IF scriptFiles[c.name] = Absent THEN NoCall
                    ELSE [c EXCEPT !.content = scriptFiles[c.name],
                                   !.pc = "readDone"]]
    /\ UNCHANGED <<storeVars, started, maxInFlight, lastLoad, managerFrame>>

\* loadScript resumes after adapter.read: cache the content, return it
LoadAfterRead(i) ==
    LET c == calls[i] IN
    /\ c.pc = "readDone"
    /\ scriptCache' = [scriptCache EXCEPT ![CachedUnder(c.name)] = c.content]
    /\ calls' = [calls EXCEPT ![i] = Loaded(c, c.content)]
    /\ lastLoad' = LoadedLast(c, c.content, lastLoad)
    /\ UNCHANGED <<scriptFiles, scriptDirExists, started, maxInFlight,
                   managerFrame>>

\* ensureScriptDirectory returned
Ensured(i) ==
    /\ calls[i].pc = "ensure"
    /\ scriptDirExists' = TRUE
    /\ calls' = [calls EXCEPT ![i].pc = "write"]
    /\ UNCHANGED <<scriptFiles, scriptCache, started, maxInFlight, lastLoad,
                   managerFrame>>

\* adapter.write(path, content) changes the file
WriteLands(i) ==
    LET c == calls[i] IN
    /\ c.pc = "write"
    /\ scriptFiles' = [scriptFiles EXCEPT ![c.name] = c.content]
    /\ calls' = [calls EXCEPT ![i].pc = "writeDone"]
    /\ UNCHANGED <<scriptCache, scriptDirExists, started, maxInFlight, lastLoad,
                   managerFrame>>

\* the call resumes after adapter.write: this.scriptCache.set(name, content);
\* a loadScript that wrote the default script returns the template
AfterWrite(i) ==
    LET c == calls[i] IN
    /\ c.pc = "writeDone"
    /\ scriptCache' = [scriptCache EXCEPT ![c.name] = c.content]
    /\ calls' = [calls EXCEPT ![i] =
                    IF c.op = "loadInit" THEN Loaded(c, DEFAULT_SCRIPT_CONTENT)
                    ELSE NoCall]
    /\ lastLoad' = IF c.op = "loadInit"
                   THEN LoadedLast(c, DEFAULT_SCRIPT_CONTENT, lastLoad)
                   ELSE lastLoad
    /\ UNCHANGED <<scriptFiles, scriptDirExists, started, maxInFlight,
                   managerFrame>>

\* deleteScript resumes after adapter.exists
DeleteAfterExists(i) ==
    LET c == calls[i] IN
    /\ c.op = "delete"
    /\ c.pc = "existsDone"
    /\ IF c.answer THEN
          /\ calls' = [calls EXCEPT ![i].pc = "remove"]
          /\ scriptCache' = scriptCache
       ELSE
          /\ calls' = [calls EXCEPT ![i] = NoCall]
          /\ scriptCache' = [scriptCache EXCEPT ![c.name] = Absent]
    /\ UNCHANGED <<scriptFiles, scriptDirExists, started, maxInFlight, lastLoad,
                   managerFrame>>

\* adapter.remove(path) removes the file; a missing file makes the call fail
RemoveLands(i) ==
    LET c == calls[i] IN
    /\ c.pc = "remove"
    /\ scriptFiles' = [scriptFiles EXCEPT ![c.name] = Absent]
    /\ calls' = [calls EXCEPT ![i] =
                    IF scriptFiles[c.name] = Absent THEN NoCall
                    ELSE [c EXCEPT !.pc = "removeDone"]]
    /\ UNCHANGED <<scriptCache, scriptDirExists, started, maxInFlight, lastLoad,
                   managerFrame>>

\* deleteScript resumes after adapter.remove: this.scriptCache.delete(name)
AfterRemove(i) ==
    LET c == calls[i] IN
    /\ c.pc = "removeDone"
    /\ scriptCache' = [scriptCache EXCEPT ![c.name] = Absent]
    /\ calls' = [calls EXCEPT ![i] = NoCall]
    /\ UNCHANGED <<scriptFiles, scriptDirExists, started, maxInFlight, lastLoad,
                   managerFrame>>

\* copyScript resumes after adapter.exists(targetPath): an existing target is
\* an error, otherwise the source is loaded
CopyAfterExists(i) ==
    LET c == calls[i] IN
    /\ c.op = "copy"
    /\ c.pc = "existsDone"
    /\ calls' = [calls EXCEPT ![i] =
                    IF c.answer THEN NoCall
                    ELSE Loading(c.asked, NormalizedOrDefault(c.asked), c.name)]
    /\ UNCHANGED <<storeVars, started, maxInFlight, lastLoad, managerFrame>>

\* the script directory as the plugin left it after loading, with or without
\* a custom script, cached or not; calls one at a time or two at a time
InitManager ==
    /\ files = AcyclicVault
    /\ input = [kind |-> "string", text |-> <<>>, path |-> "", extension |-> ""]
    /\ apiOptions = [transformMode |-> Undefined, scriptName |-> Undefined,
                     maxEmbedDepth |-> JsUndefined]
    /\ settings = [transformMode |-> "ast",
                   maxEmbedDepth |-> JsNum(DefaultMaxEmbedDepth)]
    /\ mdOptions = StringCallOptions(apiOptions)
    /\ markdown = <<>>
    /\ pc = "idle"
    /\ trace = <<>>
    /\ Fresh
    /\ \E onDisk \in {Absent, "v0"} :
        scriptFiles = [n \in ScriptNames |->
                          CASE n = DEFAULT_SCRIPT_NAME -> DEFAULT_SCRIPT_CONTENT
                            [] n = "custom"            -> onDisk
                            [] OTHER                   -> Absent]
    /\ scriptCache = [n \in ScriptNames |->
                        IF n = DEFAULT_SCRIPT_NAME THEN DEFAULT_SCRIPT_CONTENT
                        ELSE Absent]
    /\ scriptDirExists = TRUE
    /\ calls = [i \in Slots |-> NoCall]
    /\ started = 0
    /\ maxInFlight \in {1, 2}
    /\ lastLoad = [asked |-> "", ret |-> Absent]
    /\ SandboxIdle
    /\ NewCache(1)
    /\ RendererIdle
    /\ returned = <<>>
    /\ PairIdle
    /\ EmbedIdle
    /\ SyncIdle
    /\ CodeIdle
    /\ LateIdle

NextManager ==
    \E i \in Slots :
        \/ StartLoad(i)
        \/ StartSave(i)
        \/ StartInitializeDefault(i)
        \/ StartDelete(i)
        \/ StartCopy(i)
        \/ ExistsAnswers(i)
        \/ LoadAfterExists(i)
        \/ ReadAnswers(i)
        \/ LoadAfterRead(i)
        \/ Ensured(i)
        \/ WriteLands(i)
        \/ AfterWrite(i)
        \/ DeleteAfterExists(i)
        \/ RemoveLands(i)
        \/ AfterRemove(i)
        \/ CopyAfterExists(i)

SpecManager == InitManager /\ [][NextManager]_vars

\* C22: the default script is a read-only template. Whatever calls of
\* saveScript, copyScript, deleteScript, loadScript and initializeDefaultScript
\* were made, default.js and its cache entry hold the built-in template, and a
\* loadScript("default") that returns, returns the built-in template.
C22_DefaultReadOnly ==
    /\ scriptFiles[DEFAULT_SCRIPT_NAME] = DEFAULT_SCRIPT_CONTENT
    /\ scriptCache[DEFAULT_SCRIPT_NAME] \in {Absent, DEFAULT_SCRIPT_CONTENT}
    /\ lastLoad.asked = DEFAULT_SCRIPT_NAME => lastLoad.ret = DEFAULT_SCRIPT_CONTENT

\* loadScript, saveScript and deleteScript only
NextRace ==
    \E i \in Slots :
        \/ StartLoad(i)
        \/ StartSave(i)
        \/ StartDelete(i)
        \/ ExistsAnswers(i)
        \/ LoadAfterExists(i)
        \/ ReadAnswers(i)
        \/ LoadAfterRead(i)
        \/ Ensured(i)
        \/ WriteLands(i)
        \/ AfterWrite(i)
        \/ DeleteAfterExists(i)
        \/ RemoveLands(i)
        \/ AfterRemove(i)

SpecRace == InitManager /\ [][NextRace]_vars

\* C28: once every loadScript, saveScript and deleteScript call has completed,
\* however the calls were interleaved, a script that is cached is cached with
\* the content of its file.
C28_CacheMatchesFile ==
    InFlight = {} =>
        \A n \in ScriptNames :
            scriptCache[n] # Absent => scriptCache[n] = scriptFiles[n]

\* ------------------------------------------------------ generateCodeBlock
\* text is a sequence of characters
MaxFence == 4

MaxCodeLen == 3

\* the characters that matter, by name
Backtick == "backtick"

Newline == "newline"

\* n backticks
Backticks(n) == [k \in 1..n |-> Backtick]

\* the code of a block: letters and backticks
CodeValues ==
    UNION {[1..n -> {"x", Backtick}] : n \in 0..MaxCodeLen}

\* the block as the parser hands it over: lang is null when the info string is
\* empty; the fence it was written with is not part of the node
CodeNodes ==
    [fence : 3..MaxFence, lang : {Undefined, <<"j", "s">>}, value : CodeValues]

\* node.lang ?? ""
LangOrEmpty(lang) == IF lang = Undefined THEN <<>> ELSE lang

\* const fence: three backticks
FenceOf(node) == Backticks(3)

\* the template literal: fence, lang, newline, node.value, newline, fence,
\* two newlines
generateCodeBlock(node) ==
    FenceOf(node) \o LangOrEmpty(node.lang) \o <<Newline>> \o node.value
        \o <<Newline>> \o FenceOf(node) \o <<Newline, Newline>>

InitCode ==
    /\ codeNode \in CodeNodes
    /\ generated = <<>>
    /\ ConvertIdle
    /\ SandboxIdle
    /\ NewCache(1)
    /\ RendererIdle
    /\ returned = <<>>
    /\ PairIdle
    /\ EmbedIdle
    /\ SyncIdle
    /\ ManagerIdle
    /\ LateIdle

\* the generator is called on the block
GenerateCodeBlock ==
    /\ generated = <<>>
    /\ generated' = generateCodeBlock(codeNode)
    /\ UNCHANGED <<codeNode, convertVars, sandboxVars, cacheVars, renderVars,
                   returned, pairVars, embedVars, besidesCode>>

NextCode == GenerateCodeBlock

SpecCode == InitCode /\ [][NextCode]_vars

\* C23: the generated block opens and closes with a fence as long as the fence
\* the input block was written with; the language follows the opening fence
\* as written (nothing when absent), and the code is copied unchanged between
\* the fences.
C23_FencedVerbatim ==
    generated # <<>> =>
        LET lang == LangOrEmpty(codeNode.lang)
            n == codeNode.fence IN
        generated = Backticks(n) \o lang \o <<Newline>> \o codeNode.value
                        \o <<Newline>> \o Backticks(n) \o <<Newline, Newline>>

\* a step that is set(k, svg) on a key that is cached
UpdatesCached(k, svg) ==
    /\ cache[k] # NoEntry
    /\ cache' = CacheSet(cache, accessOrder, maxSize, k, svg).cache
    /\ accessOrder' = CacheSet(cache, accessOrder, maxSize, k, svg).accessOrder
    /\ recency' = Touch(recency, k)

\* C24: set(k, v) on a key that is already cached stores v under k and makes k
\* the most recently used key; every other entry stays as it was and size()
\* does not change, also when the cache is full.
C24_UpdateKeepsOthers ==
    [][\A k \in CacheKeys, svg \in Svgs :
        UpdatesCached(k, svg) =>
            /\ cache'[k] = svg
            /\ accessOrder' # <<>>
            /\ accessOrder'[Len(accessOrder')] = k
            /\ \A j \in CacheKeys \ {k} : cache'[j] = cache[j]
            /\ Size(cache') = Size(cache)]_vars

\* C25: the access-order list holds every cached key exactly once and no key
\* that is not cached, whatever the keys are, the empty string included.
C25_OrderMatchesMap ==
    /\ {accessOrder[i] : i \in DOMAIN accessOrder} = Cached(cache)
    /\ Len(accessOrder) = Size(cache)

\* C26: renderToSVG calls compile only when the cache holds no entry under the
\* hash of the code; when an entry is there, whatever text it holds, the empty
\* text included, that text is returned and compile is not called.
C26_CompilesOnlyOnMiss ==
    [][\A r \in Renders :
        (renders[r].pc = "hashing" /\ renders'[r].pc # "hashing") =>
            LET h == hashCode(renders[r].code) IN
            IF cache[h] = NoEntry THEN renders'[r].pc = "compiling"
            ELSE /\ renders'[r].pc = "done"
                 /\ renders'[r].svg = cache[h]]_vars

\* initialize() and renderToSVG() calls made at once on one renderer
InitInitialize ==
    /\ NewCache(1)
    /\ opLog = <<>>
    /\ initialized = FALSE
    /\ initPromise = "null"
    /\ doInitializeStarts = 0
    /\ renders \in [Renders -> {CallAt("called", code) : code \in Codes}
                                \cup {CallAt("calledInitialize", "")}]
    /\ ConvertIdle
    /\ SandboxIdle
    /\ returned = <<>>
    /\ PairIdle
    /\ EmbedIdle
    /\ ExtraIdle

InitializeCalled == \E r \in Renders : Initialize(r)

InitializeResolves == \E r \in Renders : InitializeSettles(r)

NextInitialize ==
    \/ Render
    \/ InitializeCalled
    \/ DoInitialize
    \/ InitializeResumes
    \/ InitializeResolves
    \/ HashResumes
    \/ CompileResumes

SpecInitialize == InitInitialize /\ [][NextInitialize]_vars

\* the calls that wait for initialization
AwaitingInitialization ==
    {r \in Renders : renders[r].pc \in {"initializing", "awaitingInitialize"}}

\* C27: however initialize() and renderToSVG() calls on one renderer are
\* interleaved, doInitialize is started at most once; a call that found the
\* renderer uninitialized waits until that one initialization has settled and
\* gets its outcome; no call reaches hashCode, the cache or compile unless the
\* initialization succeeded.
C27_InitializedOnce ==
    /\ doInitializeStarts <= 1
    /\ AwaitingInitialization # {} => doInitializeStarts = 1
    /\ \A r \in Renders :
        /\ renders[r].pc \in {"hashing", "compiling"} => initialized
        /\ (renders[r].pc = "done" /\ renders[r].code # "") => initialized
        /\ renders[r].pc = "done" => initPromise = "resolved"
        /\ (renders[r].pc = "failed" /\ renders[r].codeHash = "") =>
                initPromise = "rejected"
    /\ initialized <=> initPromise = "resolved"

\* a renderToSVG call and an initialize() call both wait for the one
\* initialization in flight
C27_Witness ==
    /\ doInitializeStarts = 1
    /\ initPromise = "pending"
    /\ renders[1].pc = "initializing"
    /\ renders[2].pc = "awaitingInitialize"

\* ------------------------------------------- the plugin's Typst features
\* how many initializations are followed
MaxAttempts == 4

\* settings.typst.previewMode
PreviewModes == {"none", "wasm", "compile"}

\* window.bon.typst after registerGlobalTypstAPI, holding api: nothing is
\* registered for null, else the three methods are bound to api
registerGlobalTypstAPI(api, bound) == IF api = 0 THEN bound ELSE api

\* window.bon after registerGlobalTypstAPI
BonAfterRegister(api, b) ==
    IF api = 0 THEN b ELSE [b EXCEPT !.defined = TRUE]

\* window.bon after unregisterGlobalTypstAPI: typst is deleted, and window.bon
\* with it when no key is left
BonAfterUnregister(b) ==
    IF b.defined /\ ~b.others THEN [b EXCEPT !.defined = FALSE] ELSE b

\* the plugin after loadSettings: no feature yet, window.bon absent or holding
\* what others put there
InitPlugin ==
    /\ typstScriptManager = 0
    /\ typstConverter = 0
    /\ typstAPI = 0
    /\ previewCallback = "null"
    /\ bon \in {[defined |-> FALSE, others |-> FALSE],
                [defined |-> TRUE, others |-> FALSE],
                [defined |-> TRUE, others |-> TRUE]}
    /\ bonTypst = 0
    /\ pluginPc = "idle"
    /\ attempts = 0
    /\ lastCall = "none"
    /\ ConvertIdle
    /\ SandboxIdle
    /\ NewCache(1)
    /\ RendererIdle
    /\ returned = <<>>
    /\ PairIdle
    /\ EmbedIdle
    /\ SyncIdle
    /\ ManagerIdle
    /\ CodeIdle
    /\ FileIdle

pluginFrame == <<convertVars, sandboxVars, cacheVars, renderVars, returned,
                 pairVars, embedVars, besidesPlugin>>

\* initializeTypstFeatures up to its first await: the three fields are reset,
\* a script manager is made and ensureScriptDirectory is awaited
BeginInitialize(call) ==
    /\ pluginPc = "idle"
    /\ attempts < MaxAttempts
    /\ attempts' = attempts + 1
    /\ typstScriptManager' = attempts + 1
    /\ typstConverter' = 0
    /\ typstAPI' = 0
    /\ pluginPc' = "ensureScriptDirectory"
    /\ lastCall' = call
    /\ UNCHANGED <<previewCallback, bon, bonTypst, pluginFrame>>

\* onload's call
InitializeTypstFeatures ==
    /\ lastCall = "none"
    /\ BeginInitialize("initialize")

\* a call from the settings tab
RefreshTypstFeatures ==
    /\ pluginPc = "idle"
    /\ BeginInitialize("refresh")

\* ensureScriptDirectory resolved, initializeDefaultScript is awaited
EnsureScriptDirectoryResolves ==
    /\ pluginPc = "ensureScriptDirectory"
    /\ pluginPc' = "initializeDefaultScript"
    /\ UNCHANGED <<typstScriptManager, typstConverter, typstAPI,
                   previewCallback, bon, bonTypst, attempts, lastCall,
                   pluginFrame>>

\* initializeDefaultScript resolved: the converter and the API are made, the
\* API is registered under window.bon.typst and the commands are registered
FeaturesInitialized ==
    /\ pluginPc = "initializeDefaultScript"
    /\ \E mode \in PreviewModes :
        previewCallback' = IF mode # "none" THEN "set" ELSE "null"
    /\ typstConverter' = typstScriptManager
    /\ typstAPI' = typstScriptManager
    /\ bonTypst' = registerGlobalTypstAPI(typstScriptManager, bonTypst)
    /\ bon' = BonAfterRegister(typstScriptManager, bon)
    /\ pluginPc' = "idle"
    /\ UNCHANGED <<typstScriptManager, attempts, lastCall, pluginFrame>>

\* an awaited step rejected, or a constructor threw: the catch block resets
\* the three fields
InitializationFails ==
    /\ pluginPc \in {"ensureScriptDirectory", "initializeDefaultScript"}
    /\ typstScriptManager' = 0
    /\ typstConverter' = 0
    /\ typstAPI' = 0
    /\ previewCallback' = "null"
    /\ pluginPc' = "idle"
    /\ UNCHANGED <<bon, bonTypst, attempts, lastCall, pluginFrame>>

\* registerTypstCommands threw, after the API was registered: the catch block
\* resets the three fields
RegisterTypstCommandsFails ==
    /\ pluginPc = "initializeDefaultScript"
    /\ bonTypst' = registerGlobalTypstAPI(typstScriptManager, bonTypst)
    /\ bon' = BonAfterRegister(typstScriptManager, bon)
    /\ typstScriptManager' = 0
    /\ typstConverter' = 0
    /\ typstAPI' = 0
    /\ previewCallback' = "null"
    /\ pluginPc' = "idle"
    /\ UNCHANGED <<attempts, lastCall, pluginFrame>>

\* unloadTypstFeatures, from the settings tab or onunload
UnloadTypstFeatures ==
    /\ pluginPc = "idle"
    /\ bonTypst' = 0
    /\ bon' = BonAfterUnregister(bon)
    /\ typstScriptManager' = 0
    /\ typstConverter' = 0
    /\ typstAPI' = 0
    /\ previewCallback' = "null"
    /\ lastCall' = "unload"
    /\ UNCHANGED <<pluginPc, attempts, pluginFrame>>

NextPlugin ==
    \/ InitializeTypstFeatures
    \/ RefreshTypstFeatures
    \/ EnsureScriptDirectoryResolves
    \/ FeaturesInitialized
    \/ InitializationFails
    \/ RegisterTypstCommandsFails
    \/ UnloadTypstFeatures

SpecPlugin == InitPlugin /\ [][NextPlugin]_vars

\* C29: once a call of initializeTypstFeatures, refreshTypstFeatures or
\* unloadTypstFeatures has returned, whether it succeeded or failed,
\* window.bon.typst exists only if the plugin holds a TypstAPI, and is bound
\* to that instance; after unloadTypstFeatures it does not exist.
C29_GlobalFollowsAPI ==
    pluginPc = "idle" =>
        /\ bonTypst # 0 => (typstAPI # 0 /\ bonTypst = typstAPI)
        /\ lastCall = "unload" => bonTypst = 0

\* ------------------------------------------- TypstConverter.convertFile
\* the source files convertFile is called on
SourceFiles == {[kind |-> "file", text |-> <<>>, path |-> p, extension |-> "md"] :
                   p \in MdFiles}

\* what selectScript gives: the frontmatter's script, the folder's, or the
\* configured default
SelectedScripts == ScriptNames

NoTypFile == [exists |-> FALSE, text |-> <<>>]

TypFile(text) == [exists |-> TRUE, text |-> text]

Step(name, ok) == [step |-> name, ok |-> ok]

\* what convertFile calls convertMarkdown with
ConvertFileOptions(script, depth, path) ==
    [transformMode |-> "script", scriptName |-> script,
     maxEmbedDepth |-> JsNumber(depth), currentFile |-> path]

\* (variant: the .typ file is written whatever the conversion gave)
AfterConversionWritesAnyway(res) == "writing"

\* await this.convertMarkdown(...): a rejection leaves the try block
AfterConversion(res) == IF res.status = "ok" THEN "writing" ELSE "thrown"

\* after the preview callback, resolved or rejected: the catch around it
\* only logs
AfterPreview(ok, compiles) == IF compiles THEN "compiling" ELSE "returned"

\* after writeTypstFile
AfterWriting(callback, compiles) ==
    IF callback # "null" THEN "preview" ELSE AfterPreview(TRUE, compiles)

\* what the caller has once convertFile is at to
OutcomeAt(to, error) ==
    CASE to = "thrown"   -> Thrown(error)
      [] to = "returned" -> Returned(<<>>)
      [] OTHER           -> NoResult

InitFile ==
    /\ files = AcyclicVault
    /\ input \in SourceFiles
    /\ apiOptions = [transformMode |-> Undefined, scriptName |-> Undefined,
                     maxEmbedDepth |-> JsUndefined]
    /\ settings \in [transformMode : {"ast", "script"},
                     maxEmbedDepth : {JsNum(DefaultMaxEmbedDepth)}]
    /\ mdOptions = StringCallOptions(apiOptions)
    /\ markdown = <<>>
    /\ pc = "idle"
    /\ trace = <<>>
    /\ \E s \in Stores :
        /\ scriptFiles = s.files
        /\ scriptCache = s.cache
        /\ scriptDirExists = (s.files[DEFAULT_SCRIPT_NAME] # Absent)
    /\ Fresh
    /\ filePc = "called"
    /\ selectedScript \in SelectedScripts
    /\ typFile \in {NoTypFile, TypFile(<<Tok("text", "old", 0)>>)}
    /\ previewUpdateCallback \in {"null", "resolves", "rejects"}
    /\ autoCompile \in BOOLEAN
    /\ steps = <<>>
    /\ fileOutcome = NoResult
    /\ atCall = [typ |-> typFile, scripts |-> scriptFiles]
    /\ SandboxIdle
    /\ NewCache(1)
    /\ RendererIdle
    /\ returned = <<>>
    /\ PairIdle
    /\ EmbedIdle
    /\ SyncIdle
    /\ ManagerIdle
    /\ CodeIdle
    /\ PluginIdle

fileFrame == <<sandboxVars, cacheVars, renderVars, returned, pairVars,
               embedVars, besidesFile>>

fileSetting == <<selectedScript, previewUpdateCallback, autoCompile, atCall>>

conversionLeft == <<callVars, localVars, storeVars, scriptVars, engineVars,
                    pc, trace, result>>

\* vault.read(file) resolved: the script is selected and convertMarkdown is
\* called
ReadSource ==
    /\ filePc = "called"
    /\ filePc' = "converting"
    /\ steps' = Append(steps, Step("read", TRUE))
    /\ markdown' = files[input.path]
    /\ mdOptions' = ConvertFileOptions(selectedScript, settings.maxEmbedDepth,
                                       input.path)
    /\ pc' = "SelectingStrategy"
    /\ trace' = <<"SelectingStrategy">>
    /\ UNCHANGED <<callVars, transformMode, scriptName, maxEmbedDepth,
                   currentFile, storeVars, scriptVars, engineVars, result,
                   typFile, fileOutcome, fileSetting, fileFrame>>

\* vault.read(file) rejected
ReadSourceFails ==
    /\ filePc = "called"
    /\ filePc' = "thrown"
    /\ steps' = Append(steps, Step("read", FALSE))
    /\ fileOutcome' = OutcomeAt("thrown", "ReadFailed")
    /\ UNCHANGED <<conversionLeft, typFile, fileSetting, fileFrame>>

\* convertMarkdown settled
ConversionSettles ==
    /\ filePc = "converting"
    /\ pc = "Done"
    /\ filePc' = AfterConversion(result)
    /\ steps' = Append(steps, Step("convert", result.status = "ok"))
    /\ fileOutcome' = IF filePc' = "thrown" THEN result ELSE fileOutcome
    /\ UNCHANGED <<conversionLeft, typFile, fileSetting, fileFrame>>

\* writeTypstFile: vault.modify or vault.create resolved
WriteTypstFile ==
    /\ filePc = "writing"
    /\ typFile' = TypFile(result.text)
    /\ steps' = Append(steps, Step("write", TRUE))
    /\ filePc' = AfterWriting(previewUpdateCallback, autoCompile)
    /\ fileOutcome' = OutcomeAt(filePc', "")
    /\ UNCHANGED <<conversionLeft, fileSetting, fileFrame>>

\* writeTypstFile rejected
WriteTypstFileFails ==
    /\ filePc = "writing"
    /\ steps' = Append(steps, Step("write", FALSE))
    /\ filePc' = "thrown"
    /\ fileOutcome' = OutcomeAt("thrown", "WriteFailed")
    /\ UNCHANGED <<conversionLeft, typFile, fileSetting, fileFrame>>

\* the preview callback settled
PreviewUpdated ==
    /\ filePc = "preview"
    /\ steps' = Append(steps, Step("preview", previewUpdateCallback = "resolves"))
    /\ filePc' = AfterPreview(previewUpdateCallback = "resolves", autoCompile)
    /\ fileOutcome' = OutcomeAt(filePc', "PreviewFailed")
    /\ UNCHANGED <<conversionLeft, typFile, fileSetting, fileFrame>>

\* compileTypstFile resolved
CompileTypstFile ==
    /\ filePc = "compiling"
    /\ steps' = Append(steps, Step("compile", TRUE))
    /\ filePc' = "returned"
    /\ fileOutcome' = OutcomeAt("returned", "")
    /\ UNCHANGED <<conversionLeft, typFile, fileSetting, fileFrame>>

\* compileTypstFile rejected
CompileTypstFileFails ==
    /\ filePc = "compiling"
    /\ steps' = Append(steps, Step("compile", FALSE))
    /\ filePc' = "thrown"
    /\ fileOutcome' = OutcomeAt("thrown", "CompileFailed")
    /\ UNCHANGED <<conversionLeft, typFile, fileSetting, fileFrame>>

NextFile ==
    \/ ReadSource
    \/ ReadSourceFails
    \/ SelectStrategy
    \/ LoadScript
    \/ ExistsReturns
    \/ EnsureScriptDirectory
    \/ WriteDefault
    \/ ScriptRead
    \/ ExecuteSandbox
    \/ MarkdownToTypst
    \/ RenderText
    \/ IssueResolve
    \/ ResolveReturns
    \/ ReadReturns
    \/ EmbedReturns
    \/ StructuralDone
    \/ ConversionSettles
    \/ WriteTypstFile
    \/ WriteTypstFileFails
    \/ PreviewUpdated
    \/ CompileTypstFile
    \/ CompileTypstFileFails

SpecFile == InitFile /\ [][NextFile]_vars

\* the step that comes right before a step when nothing is skipped
Preceding(name) ==
    CASE name = "convert" -> {"read"}
      [] name = "write"   -> {"convert"}
      [] name = "preview" -> {"write"}
      [] name = "compile" ->
            IF previewUpdateCallback = "null" THEN {"write"} ELSE {"preview"}
      [] OTHER            -> {}

StepFailed(name) == \E i \in 1..Len(steps) : steps[i] = Step(name, FALSE)

Performed(name) == \E i \in 1..Len(steps) : steps[i].step = name

Ended == filePc \in {"returned", "thrown"}

====
